---------------------------- MODULE Spec2Model ----------------------------
(***************************************************************************)
(* Resilient generation pipeline of the AI audiobook maker: the text       *)
(* chunker (chunk_text_smartly), the quota-aware retry handler             *)
(* (call_with_quota_awareness) and the chunk / chapter generation          *)
(* (generate_chunk_audio, generate_chapter_audio).                         *)
(*                                                                         *)
(* A text is a sequence of one-character strings.  count_tokens is the     *)
(* character-ratio form max(1, len(text) // 4) that the program uses when  *)
(* no tokenizer is loaded.                                                 *)
(***************************************************************************)
EXTENDS Integers, Sequences, FiniteSets, TLC

VARIABLES
  in_text,         \* chunk_text_smartly: the argument `text`
  in_max_tokens,   \* chunk_text_smartly: the argument `max_tokens`
  out_chunks,      \* chunk_text_smartly: the returned list
  chunk_pc         \* "input" before the call, "done" after it

chunkVars == <<in_text, in_max_tokens, out_chunks, chunk_pc>>

VARIABLES
  cfg,                  \* the job's configuration (constant during a job)
  current_chunk_limit,  \* CURRENT_CHUNK_LIMIT / self.current_chunk_limit, per generator
  chunk_step_index,     \* CHUNK_STEP_INDEX / self.chunk_step_index, per generator
  stack,                \* the active calls of generate_chunk_audio, innermost last
  ret,                  \* value being returned to the caller on top
  exc,                  \* exception being raised to the caller on top
  fs,                   \* the audio files on disk: path -> the buffers they hold
  ch,                   \* the local state of generate_chapter_audio
  fails,                \* provider failures so far
  corrupts,             \* corrupted verdicts and detector errors so far
  last_call,            \* the latest provider call: its status, and its round so far
  dead                  \* units whose provider call ended 503 or 4xx

pipeVars == <<cfg, current_chunk_limit, chunk_step_index, stack, ret, exc, fs, ch,
              fails, corrupts, last_call, dead>>

VARIABLES
  clock,                \* the time read by time.time() and datetime.now(), in seconds
  rate_limits,          \* SmartRateLimiter.rate_limits: model key -> RateLimit
  last_request_time,    \* SmartRateLimiter.last_request_time
  decision,             \* what the latest can_make_request returned
  hc,                   \* the call of call_with_quota_awareness in progress, or the last one
  log                   \* the requests the limiter counted in the last minute, oldest first

limVars == <<clock, rate_limits, last_request_time, decision, hc, log>>

\* The quality detector: the inputs of one analysis and the report it built.
VARIABLES
  det           \* the last call of detect_corruption: its inputs and its report

\* The job driver: the project state file of the job's project id, and the
\* run of main() or of the GUI's generate_audiobook in progress.
VARIABLES
  project_state,  \* .audiobook_state/<project_id>.json
  job             \* the run in progress, or the last one

\* Two threads that share the one SmartRateLimiter of limVars.
VARIABLES
  threads         \* thread -> where it is in wait_for_rate_limit / record_request

extVars == <<det, project_state, job, threads>>

(***************************************************************************)
(* Python string helpers, on sequences of characters.                      *)
(***************************************************************************)
Whitespace == {" ", "\n"}

SentenceEnd == {".", "!", "?"}

Max(a, b) == IF a >= b THEN a ELSE b

Min(a, b) == IF a <= b THEN a ELSE b


RECURSIVE lstrip(_)
lstrip(s) ==
  IF s # <<>> /\ Head(s) \in Whitespace THEN lstrip(Tail(s)) ELSE s

RECURSIVE rstrip(_)
rstrip(s) ==
  IF s # <<>> /\ s[Len(s)] \in Whitespace
  THEN rstrip(SubSeq(s, 1, Len(s) - 1)) ELSE s

\* str.strip()
strip(s) == rstrip(lstrip(s))

\* str.split('\n\n'): non-overlapping separators, scanned left to right;
\* empty fields are kept.
RECURSIVE SplitParagraphs(_, _, _)
SplitParagraphs(s, i, cur) ==
  IF i > Len(s) THEN <<cur>>
  ELSE IF i < Len(s) /\ s[i] = "\n" /\ s[i + 1] = "\n"
       THEN <<cur>> \o SplitParagraphs(s, i + 2, <<>>)
       ELSE SplitParagraphs(s, i + 1, Append(cur, s[i]))

\* Index of the last character of the whitespace run that starts at i.
RECURSIVE RunEnd(_, _)
RunEnd(s, i) ==
  IF i < Len(s) /\ s[i + 1] \in Whitespace THEN RunEnd(s, i + 1) ELSE i

\* re.split(r'(?<=[.!?])\s+', s): a separator is a maximal run of
\* whitespace whose preceding character ends a sentence.
RECURSIVE SplitSentences(_, _, _)
SplitSentences(s, i, cur) ==
  IF i > Len(s) THEN <<cur>>
  ELSE IF s[i] \in Whitespace /\ i > 1 /\ s[i - 1] \in SentenceEnd
       THEN <<cur>> \o SplitSentences(s, RunEnd(s, i) + 1, <<>>)
       ELSE SplitSentences(s, i + 1, Append(cur, s[i]))

\* str.split(): fields between runs of whitespace, empty fields dropped.
RECURSIVE SplitWords(_, _, _)
SplitWords(s, i, cur) ==
  IF i > Len(s) THEN (IF cur = <<>> THEN <<>> ELSE <<cur>>)
  ELSE IF s[i] \in Whitespace
       THEN (IF cur = <<>> THEN <<>> ELSE <<cur>>) \o SplitWords(s, i + 1, <<>>)
       ELSE SplitWords(s, i + 1, Append(cur, s[i]))

\* n times the character c
RECURSIVE Rep(_, _)
Rep(c, n) == IF n = 0 THEN <<>> ELSE <<c>> \o Rep(c, n - 1)

\* The separator a greedy pack puts before the next piece.
Sep(cur, sep) == IF cur # <<>> THEN sep ELSE <<>>

(***************************************************************************)
(* TokenEstimator.                                                         *)
(***************************************************************************)
count_tokens(text) == Max(1, Len(text) \div 4)

(***************************************************************************)
(* TextChunker: chunk_text_smartly.  Each loop of the function is a        *)
(* recursive operator over the loop's list; st = [chunks, cur] holds the   *)
(* list `chunks` and the loop's running chunk.                             *)
(***************************************************************************)
RECURSIVE chunk_text_smartly(_, _)
RECURSIVE ParagraphLoop(_, _, _, _)
RECURSIVE SentenceLoop(_, _, _, _)
RECURSIVE WordLoop(_, _, _, _)
RECURSIVE CharLoop(_, _, _, _)
RECURSIVE VerifyWordLoop(_, _, _, _)
RECURSIVE VerifyLoop(_, _, _, _)

\* The character loop starting the next chunk without the character that
\* did not fit.
RECURSIVE CharLoopDroppingOverflow(_, _, _, _)
CharLoopDroppingOverflow(word, i, st, max_tokens) ==
  IF i > Len(word) THEN st
  ELSE
    LET test_char_chunk == st.cur \o <<word[i]>>
    IN  IF count_tokens(test_char_chunk) <= max_tokens
        THEN CharLoopDroppingOverflow(word, i + 1,
               [st EXCEPT !.cur = test_char_chunk], max_tokens)
        ELSE CharLoopDroppingOverflow(word, i + 1,
               [chunks |-> Append(st.chunks, st.cur), cur |-> <<>>], max_tokens)

\* for char in word  (character-level packing of an oversized word)
CharLoop(word, i, st, max_tokens) ==
  IF i > Len(word) THEN st
  ELSE
    LET char == <<word[i]>>
        test_char_chunk == st.cur \o char
    IN  IF count_tokens(test_char_chunk) <= max_tokens
        THEN CharLoop(word, i + 1, [st EXCEPT !.cur = test_char_chunk], max_tokens)
        ELSE IF st.cur # <<>>
             THEN CharLoop(word, i + 1,
                    [chunks |-> Append(st.chunks, st.cur), cur |-> char], max_tokens)
             ELSE CharLoop(word, i + 1,
                    [st EXCEPT !.chunks = Append(st.chunks, char)], max_tokens)

\* for word in words  (word packing of an oversized sentence)
WordLoop(words, i, st, max_tokens) ==
  IF i > Len(words) THEN st
  ELSE
    LET word == words[i]
        test_word_chunk == st.cur \o Sep(st.cur, <<" ">>) \o word
    IN  IF count_tokens(test_word_chunk) <= max_tokens
        THEN WordLoop(words, i + 1, [st EXCEPT !.cur = test_word_chunk], max_tokens)
        ELSE IF st.cur # <<>>
             THEN WordLoop(words, i + 1,
                    [chunks |-> Append(st.chunks, strip(st.cur)), cur |-> word],
                    max_tokens)
             ELSE IF count_tokens(word) > max_tokens
                  THEN LET cs == CharLoop(word, 1,
                                   [chunks |-> st.chunks, cur |-> <<>>], max_tokens)
                       IN  WordLoop(words, i + 1,
                             [chunks |-> cs.chunks,
                              cur |-> IF cs.cur # <<>> THEN cs.cur ELSE st.cur],
                             max_tokens)
                  ELSE WordLoop(words, i + 1, [st EXCEPT !.cur = word], max_tokens)

\* for sentence in sentences  (sentence packing of an oversized paragraph)
SentenceLoop(sentences, i, st, max_tokens) ==
  IF i > Len(sentences) THEN st
  ELSE
    LET sentence == sentences[i]
        test_sentence_chunk == st.cur \o Sep(st.cur, <<" ">>) \o sentence
    IN  IF count_tokens(test_sentence_chunk) <= max_tokens
        THEN SentenceLoop(sentences, i + 1,
               [st EXCEPT !.cur = test_sentence_chunk], max_tokens)
        ELSE IF st.cur # <<>>
             THEN IF count_tokens(sentence) > max_tokens
                  THEN SentenceLoop(sentences, i + 1,
                         [chunks |-> Append(st.chunks, strip(st.cur))
                                       \o chunk_text_smartly(sentence, max_tokens),
                          cur |-> <<>>], max_tokens)
                  ELSE SentenceLoop(sentences, i + 1,
                         [chunks |-> Append(st.chunks, strip(st.cur)),
                          cur |-> sentence], max_tokens)
             ELSE LET ws == WordLoop(SplitWords(sentence, 1, <<>>), 1,
                                   [chunks |-> st.chunks, cur |-> <<>>], max_tokens)
                  IN  SentenceLoop(sentences, i + 1,
                        [chunks |-> ws.chunks,
                         cur |-> IF ws.cur # <<>> THEN ws.cur ELSE st.cur],
                        max_tokens)

\* for paragraph in paragraphs
ParagraphLoop(paragraphs, i, st, max_tokens) ==
  IF i > Len(paragraphs) THEN st
  ELSE
    LET paragraph == paragraphs[i]
        test_chunk == st.cur \o Sep(st.cur, <<"\n", "\n">>) \o paragraph
    IN  IF count_tokens(test_chunk) <= max_tokens
        THEN ParagraphLoop(paragraphs, i + 1, [st EXCEPT !.cur = test_chunk], max_tokens)
        ELSE IF st.cur # <<>>
             THEN IF count_tokens(paragraph) > max_tokens
                  THEN ParagraphLoop(paragraphs, i + 1,
                         [chunks |-> Append(st.chunks, strip(st.cur))
                                       \o chunk_text_smartly(paragraph, max_tokens),
                          cur |-> <<>>], max_tokens)
                  ELSE ParagraphLoop(paragraphs, i + 1,
                         [chunks |-> Append(st.chunks, strip(st.cur)),
                          cur |-> paragraph], max_tokens)
             ELSE LET ss == SentenceLoop(SplitSentences(paragraph, 1, <<>>), 1,
                                   [chunks |-> st.chunks, cur |-> <<>>], max_tokens)
                  IN  ParagraphLoop(paragraphs, i + 1,
                        [chunks |-> ss.chunks,
                         cur |-> IF ss.cur # <<>> THEN ss.cur ELSE st.cur],
                        max_tokens)

\* Final verification pass, inner loop: for word in words
VerifyWordLoop(words, i, st, max_tokens) ==
  IF i > Len(words) THEN st
  ELSE
    LET word == words[i]
        test_chunk == st.cur \o Sep(st.cur, <<" ">>) \o word
    IN  IF count_tokens(test_chunk) <= max_tokens
        THEN VerifyWordLoop(words, i + 1, [st EXCEPT !.cur = test_chunk], max_tokens)
        ELSE VerifyWordLoop(words, i + 1,
               [chunks |-> IF st.cur # <<>>
                           THEN Append(st.chunks, strip(st.cur)) ELSE st.chunks,
                cur |-> word], max_tokens)

\* Final verification pass: for chunk in chunks
VerifyLoop(chunks, i, verified_chunks, max_tokens) ==
  IF i > Len(chunks) THEN verified_chunks
  ELSE
    LET chunk == chunks[i]
    IN  IF strip(chunk) = <<>>
        THEN VerifyLoop(chunks, i + 1, verified_chunks, max_tokens)
        ELSE IF count_tokens(chunk) > max_tokens
             THEN LET vs == VerifyWordLoop(SplitWords(chunk, 1, <<>>), 1,
                              [chunks |-> verified_chunks, cur |-> <<>>], max_tokens)
                  IN  VerifyLoop(chunks, i + 1,
                        IF vs.cur # <<>>
                        THEN Append(vs.chunks, strip(vs.cur)) ELSE vs.chunks,
                        max_tokens)
             ELSE VerifyLoop(chunks, i + 1,
                    Append(verified_chunks, strip(chunk)), max_tokens)

chunk_text_smartly(text, max_tokens) ==
  LET ps     == ParagraphLoop(SplitParagraphs(text, 1, <<>>), 1,
                              [chunks |-> <<>>, cur |-> <<>>], max_tokens)
      chunks == IF ps.cur # <<>>
                THEN IF count_tokens(ps.cur) > max_tokens
                     THEN ps.chunks \o chunk_text_smartly(ps.cur, max_tokens)
                     ELSE Append(ps.chunks, strip(ps.cur))
                ELSE ps.chunks
  IN  VerifyLoop(chunks, 1, <<>>, max_tokens)

(***************************************************************************)
(* Thresholds and configuration of the generation pipeline.                *)
(*                                                                         *)
(* Token thresholds are scaled: the program's values are 30000 (ceiling),  *)
(* [25000, 20000, 15000, 10000, 5000] (ladder), 1800 (safe mode), 1000     *)
(* (auto-split) and 600 (retry split).  The model keeps their number and   *)
(* their order, 600 < 1000 < 1800 < 5000 < ... < 25000 < 30000, at a scale *)
(* at which the texts that cross them can be enumerated.                   *)
(***************************************************************************)
DEFAULT_CHUNK_LIMIT == 9

CHUNK_REDUCTION_STEPS == <<8, 7, 6, 5, 4>>

SAFE_CHUNK_LIMIT == 3

AUTO_SPLIT_TOKENS == 2

RETRY_SPLIT_TOKENS == 1

\* max_retries=3 passed to generate_audio_with_quota_awareness
max_retries == 3

CORRUPTION_RETRY_ATTEMPTS == 2

\* len("Narrate this audiobook chapter in a professional, engaging style: ")
STYLE_PREFIX_LEN == 67

Generators == {"main", "temp"}

\* The output path of the chapter; a path is a sequence of name parts.
OUTPUT_FILE == << [k |-> "chapter", n |-> 1] >>

NoExc == [cls |-> "none", mod |-> "none", msg |-> {}]

\* The words a message is searched for: a message is the set of those it holds.
Markers == {"500", "502", "timeout"}

\* Markers in the decimal text of a number put into a message.
NumberText(n) == IF n = 500 THEN {"500"} ELSE IF n = 502 THEN {"502"} ELSE {}

(***************************************************************************)
(* TokenBudget: reduce_chunk_limit, for generator g.                       *)
(***************************************************************************)
CanReduce(g) == chunk_step_index[g] < Len(CHUNK_REDUCTION_STEPS)

reduce_chunk_limit_limit(g) ==
  IF CanReduce(g)
  THEN [current_chunk_limit EXCEPT ![g] = CHUNK_REDUCTION_STEPS[chunk_step_index[g] + 1]]
  ELSE current_chunk_limit

reduce_chunk_limit_index(g) ==
  IF CanReduce(g)
  THEN [chunk_step_index EXCEPT ![g] = chunk_step_index[g] + 1]
  ELSE chunk_step_index

\* effective_limit of generate_chunk_audio / generate_chapter_audio
EffectiveLimit(limit, safe_chunk_mode) ==
  IF safe_chunk_mode THEN Min(limit, SAFE_CHUNK_LIMIT) ELSE limit

\* the condition under which generate_chunk_audio re-chunks its text
ExceedsLimitByTwo(chunk_text, effective_limit) ==
  count_tokens(chunk_text) > effective_limit + 1

ExceedsLimit(chunk_text, effective_limit) == count_tokens(chunk_text) > effective_limit

\* tts_prompt: the style prefix followed by chunk_text
tts_prompt(chunk_text, custom_prompt) ==
  IF strip(custom_prompt) # <<>>
  THEN strip(custom_prompt) \o <<":", " ">> \o chunk_text
  ELSE Rep("n", STYLE_PREFIX_LEN) \o chunk_text

(***************************************************************************)
(* RetryOrchestrator: the except clause of call_with_quota_awareness for a *)
(* provider failure with HTTP status `status` (0: the exception carries no *)
(* response) and message `msg`, on attempt `attempt`.  "continue" sleeps   *)
(* and makes the next attempt; otherwise the exception named is raised.    *)
(***************************************************************************)
Continue == [cls |-> "continue", mod |-> "none", msg |-> {}]

RetriesLeft(attempt) == attempt < max_retries

OtherHttpError(status, msg) ==
  [cls |-> "HTTPAPIError", mod |-> "rate_limiter", msg |-> NumberText(status) \cup msg]

ServerErrorExhausted ==
  [cls |-> "MaxRetriesExceededError", mod |-> "rate_limiter",
   msg |-> NumberText(max_retries)]

QuotaExhausted ==
  [cls |-> "QuotaExhaustedError", mod |-> "rate_limiter", msg |-> NumberText(max_retries)]

ServiceUnavailable ==
  [cls |-> "ServiceUnavailableError", mod |-> "rate_limiter", msg |-> {}]

\* status 429 (lines 228-240)
RateLimitedOneCallShort(attempt) ==
  IF attempt + 1 < max_retries THEN Continue ELSE QuotaExhausted

RateLimited(attempt) == IF RetriesLeft(attempt) THEN Continue ELSE QuotaExhausted

\* status 503 (lines 242-245)
ServiceUnavailableRetried(attempt) ==
  IF RetriesLeft(attempt) THEN Continue ELSE ServiceUnavailable

OnServiceUnavailable(attempt) == ServiceUnavailable

call_with_quota_awareness(status, msg, attempt) ==
  IF status # 0
  THEN IF status = 429
       THEN RateLimited(attempt)
       ELSE IF status = 503
       THEN OnServiceUnavailable(attempt)
       ELSE IF status \in {500, 502}
       THEN IF RetriesLeft(attempt) THEN Continue ELSE ServerErrorExhausted
       ELSE OtherHttpError(status, msg)
  ELSE IF RetriesLeft(attempt) THEN Continue
       ELSE [cls |-> "ProviderError", mod |-> "provider", msg |-> msg]

\* the test of the error handlers: "500" in s or "502" in s or "timeout" in s.lower()
IsServerErrorText(msg) == msg \cap Markers # {}

\* except (MaxRetriesExceededError, HTTPAPIError) of generate_chapter_audio: the
\* classes it names are those of api_retry_handler.
CaughtByChapter(e) ==
  e.mod = "api_retry_handler" /\ e.cls \in {"MaxRetriesExceededError", "HTTPAPIError"}

(***************************************************************************)
(* Files.                                                                  *)
(***************************************************************************)
Exists(path) == path \in DOMAIN fs

Write(files, path, content) ==
  [p \in DOMAIN files \cup {path} |-> IF p = path THEN content ELSE files[p]]

Remove(files, paths) == [p \in DOMAIN files \ paths |-> files[p]]

Range(seq) == { seq[i] : i \in 1..Len(seq) }

\* ProjectStateManager.get_available_filename: the first free name_<counter>
RECURSIVE get_available_filename(_, _)
get_available_filename(base_path, counter) ==
  LET new_path == IF counter = 0 THEN base_path
                  ELSE base_path \o << [k |-> "dup", n |-> counter] >>
  IN  IF Exists(new_path) THEN get_available_filename(base_path, counter + 1)
      ELSE new_path

\* The name combine_audio_chunks exports to.
handle_file_collision(output_file) ==
  IF cfg.impl = "app" THEN get_available_filename(output_file, 0) ELSE output_file

\* The buffers of the chunk files in the order combine_audio_chunks reads them.
RECURSIVE ContentOfLastFirst(_)
ContentOfLastFirst(chunk_files) ==
  IF chunk_files = <<>> THEN <<>>
  ELSE ContentOfLastFirst(Tail(chunk_files)) \o fs[Head(chunk_files)]

RECURSIVE ContentOf(_)
ContentOf(chunk_files) ==
  IF chunk_files = <<>> THEN <<>>
  ELSE fs[Head(chunk_files)] \o ContentOf(Tail(chunk_files))

\* combine_audio_chunks: reads every chunk file (a missing one raises), exports
\* the concatenation, removes the chunk files, returns the exported path.
combine_audio_chunks(chunk_files, output_file) ==
  IF \E i \in 1..Len(chunk_files) : ~Exists(chunk_files[i])
  THEN [ok |-> FALSE, path |-> <<>>, files |-> fs]
  ELSE LET final_output_file == handle_file_collision(output_file)
       IN  [ok    |-> TRUE,
            path  |-> final_output_file,
            files |-> Remove(Write(fs, final_output_file, ContentOf(chunk_files)),
                             Range(chunk_files))]

FileNotFound == [cls |-> "FileNotFoundError", mod |-> "builtin", msg |-> {}]

(***************************************************************************)
(* GenerationPipeline: generate_chunk_audio.  Each active call is a frame  *)
(* of `stack`; `pc` is the place the call has reached:                     *)
(*   "enter"      at the top of the function                               *)
(*   "sub_loop"   in the loop over the sub-chunks of an over-limit chunk   *)
(*   "call"       in generate_audio_with_quota_awareness, before attempt   *)
(*                number `attempt`                                         *)
(*   "check"      audio written, before quick_corruption_check             *)
(*   "regen"      in the recursive call that regenerates corrupted audio   *)
(*   "retry_loop" in the loop over the smaller chunks of a corrupted chunk *)
(* `lin` is the history of the unit the frame works on: buffers generated, *)
(* corrupted verdicts, whether a call failed or the detector raised.       *)
(***************************************************************************)
MaxFailures == 4

MaxCorruptions == 3

\* HTTP statuses of a failed provider call; 0: an exception without response.
Statuses == {429, 503, 500, 502, 400, 0}

Messages == { {} } \cup { {m} : m \in {"500", "timeout"} }

ClientErrors == {400}

FreshLineage == [gens |-> 0, corr |-> 0, pf |-> FALSE, verdict |-> "none", split |-> FALSE]

SplitLineage == [FreshLineage EXCEPT !.split = TRUE]

NoCall == [status |-> 0, round |-> "none", attempt |-> 0]

NoReturn == [path |-> <<>>, text |-> <<>>, lin |-> FreshLineage]

NewFrame(text, out, safe, rc, g, lin) ==
  [chunk_text |-> text, chunk_output_file |-> out, safe_chunk_mode |-> safe,
   retry_count |-> rc, g |-> g, pc |-> "enter", sub_chunks |-> <<>>,
   sub_chunk_files |-> <<>>, attempt |-> 0, round |-> "none", lin |-> lin]

\* What generate_chunk_audio returns, with the history of the unit behind it.
Returned(f, lin) == [path |-> f.chunk_output_file, text |-> f.chunk_text, lin |-> lin]

Top == stack[Len(stack)]

Popped == SubSeq(stack, 1, Len(stack) - 1)

ReplaceTop(f) == [stack EXCEPT ![Len(stack)] = f]

Running == stack # <<>> /\ ret = NoReturn /\ exc = NoExc

InLoop(f) == f.pc \in {"sub_loop", "retry_loop"}

\* places inside the try block of the corruption check (lines 419-471 of app.py)
InQualityTry(f) == f.pc \in {"regen", "retry_loop"}

DetectionOn == cfg.detect

\* Lines 335-350: effective limit, and re-chunking of a chunk over it.
GenEnter ==
  /\ Running /\ Top.pc = "enter"
  /\ LET effective_limit == EffectiveLimit(current_chunk_limit[Top.g], Top.safe_chunk_mode)
     IN  stack' = ReplaceTop(
           IF ExceedsLimit(Top.chunk_text, effective_limit)
           THEN [Top EXCEPT !.pc = "sub_loop", !.lin = SplitLineage,
                            !.sub_chunks = chunk_text_smartly(Top.chunk_text, effective_limit)]
           ELSE [Top EXCEPT !.pc = "call"])
  /\ UNCHANGED <<chunkVars, extVars, limVars, cfg, current_chunk_limit, chunk_step_index, ret, exc, fs, ch,
                 fails, corrupts, last_call, dead>>

\* Lines 357-361 and 451-456: the recursive call for the next sub-chunk.
GenSubNext ==
  /\ Running /\ InLoop(Top)
  /\ Len(Top.sub_chunk_files) < Len(Top.sub_chunks)
  /\ LET i == Len(Top.sub_chunk_files) + 1
         sub_output == Top.chunk_output_file \o
                       << [k |-> IF Top.pc = "sub_loop" THEN "sub" ELSE "retry", n |-> i] >>
     IN  stack' = Append(stack, NewFrame(Top.sub_chunks[i], sub_output,
                                         Top.safe_chunk_mode, 0, Top.g, FreshLineage))
  /\ UNCHANGED <<chunkVars, extVars, limVars, cfg, current_chunk_limit, chunk_step_index, ret, exc, fs, ch,
                 fails, corrupts, last_call, dead>>

\* sub_chunk_files.append(sub_file)
GenSubReturn ==
  /\ stack # <<>> /\ ret # NoReturn /\ InLoop(Top)
  /\ stack' = ReplaceTop([Top EXCEPT !.sub_chunk_files = Append(@, ret.path)])
  /\ ret' = NoReturn
  /\ UNCHANGED <<chunkVars, extVars, limVars, cfg, current_chunk_limit, chunk_step_index, exc, fs, ch,
                 fails, corrupts, last_call, dead>>

\* Lines 365 and 459: return combine_audio_chunks(sub_chunk_files, chunk_output_file).
\* Line 459 is inside the try of the corruption check: what it raises is caught
\* by `except Exception` (line 469) and the function returns chunk_output_file.
GenSubCombine ==
  /\ Running /\ InLoop(Top)
  /\ Len(Top.sub_chunk_files) = Len(Top.sub_chunks)
  /\ LET c == combine_audio_chunks(Top.sub_chunk_files, Top.chunk_output_file)
     IN  /\ fs' = c.files
         /\ stack' = Popped
         /\ IF c.ok
            THEN /\ ret' = [path |-> c.path, text |-> Top.chunk_text, lin |-> Top.lin]
                 /\ exc' = exc
            ELSE IF InQualityTry(Top)
                 THEN /\ ret' = Returned(Top, [Top.lin EXCEPT !.pf = TRUE]) /\ exc' = exc
                 ELSE /\ exc' = FileNotFound /\ ret' = ret
  /\ UNCHANGED <<chunkVars, extVars, limVars, cfg, current_chunk_limit, chunk_step_index, ch,
                 fails, corrupts, last_call, dead>>

\* An exception arrives from a recursive call.  Line 360 is outside every try:
\* it propagates.  Lines 441, 455 and 463 are inside the try of the corruption
\* check: `except Exception` (line 469) prints it and the function returns
\* chunk_output_file (line 477).
GenChildRaised ==
  /\ stack # <<>> /\ exc # NoExc
  /\ stack' = Popped
  /\ IF InQualityTry(Top)
     THEN /\ exc' = NoExc
          /\ ret' = Returned(Top, [Top.lin EXCEPT !.pf = TRUE])
     ELSE UNCHANGED <<exc, ret>>
  /\ UNCHANGED <<chunkVars, extVars, limVars, cfg, current_chunk_limit, chunk_step_index, fs, ch,
                 fails, corrupts, last_call, dead>>

\* Lines 441 and 463: return generate_chunk_audio(...) of a regeneration.
GenRegenReturn ==
  /\ stack # <<>> /\ ret # NoReturn /\ Top.pc = "regen"
  /\ stack' = Popped
  /\ UNCHANGED <<chunkVars, extVars, limVars, cfg, current_chunk_limit, chunk_step_index, ret, exc, fs, ch,
                 fails, corrupts, last_call, dead>>

\* The statuses of the failed attempts of a retry round, summarised.
RoundWith(round, status) ==
  LET kind == IF status = 429 THEN "429"
              ELSE IF status \in {500, 502} THEN "5xx" ELSE "other"
  IN  IF round \in {"none", kind} THEN kind ELSE "mixed"

\* Lines 399-414: the provider call succeeds (record_request, then wave_file).
ProviderSuccess ==
  /\ Running /\ Top.pc = "call"
  /\ LET lin == [Top.lin EXCEPT !.gens = @ + 1]
     IN  /\ fs' = Write(fs, Top.chunk_output_file,
                        << [text |-> Top.chunk_text, buf |-> lin.gens] >>)
         /\ IF DetectionOn
            THEN /\ stack' = ReplaceTop([Top EXCEPT !.pc = "check", !.lin = lin,
                                                     !.attempt = 0, !.round = "none"])
                 /\ ret' = ret
            ELSE /\ stack' = Popped
                 /\ ret' = Returned(Top, lin)
  /\ last_call' = [status |-> 200, round |-> "none", attempt |-> 0]
  /\ UNCHANGED <<chunkVars, extVars, limVars, cfg, current_chunk_limit, chunk_step_index, exc, ch, fails, corrupts, dead>>

\* The except clause of generate_chunk_audio (lines 479-498) for exception e:
\* TRUE when it reduces the limit and calls generate_chunk_audio again.
HandlerRetries(e, g) == IsServerErrorText(e.msg) /\ CanReduce(g)

\* Lines 399-406 and 479-498: the provider call fails.  The retry handler either
\* goes on to the next attempt or raises; what it raises reaches the except
\* clause of generate_chunk_audio, which retries at a reduced limit or re-raises.
ProviderFailure ==
  /\ Running /\ Top.pc = "call"
  /\ fails < MaxFailures
  /\ \E status \in Statuses, msg \in Messages :
       LET e == call_with_quota_awareness(status, msg, Top.attempt)
       IN  /\ last_call' = [status |-> status, round |-> RoundWith(Top.round, status),
                             attempt |-> Top.attempt]
           /\ dead' = IF status = 503 \/ status \in ClientErrors
                      THEN dead \cup {[out |-> Top.chunk_output_file, status |-> status]}
                      ELSE dead
           /\ IF e = Continue
              THEN /\ stack' = ReplaceTop([Top EXCEPT !.attempt = @ + 1,
                                                      !.round = RoundWith(@, status)])
                   /\ UNCHANGED <<current_chunk_limit, chunk_step_index, exc>>
              ELSE IF HandlerRetries(e, Top.g)
              THEN /\ current_chunk_limit' = reduce_chunk_limit_limit(Top.g)
                   /\ chunk_step_index' = reduce_chunk_limit_index(Top.g)
                   /\ stack' = ReplaceTop(NewFrame(Top.chunk_text, Top.chunk_output_file,
                                            Top.safe_chunk_mode, 0, Top.g,
                                            [Top.lin EXCEPT !.pf = TRUE]))
                   /\ exc' = exc
              ELSE /\ stack' = Popped
                   /\ exc' = e
                   /\ UNCHANGED <<current_chunk_limit, chunk_step_index>>
  /\ fails' = fails + 1
  /\ UNCHANGED <<chunkVars, extVars, limVars, cfg, ret, fs, ch, corrupts>>

\* Lines 421-425: is_corrupted and _retry_count < CORRUPTION_RETRY_ATTEMPTS
ShouldRegenerateOnceMore(is_corrupted, retry_count) ==
  is_corrupted /\ retry_count <= CORRUPTION_RETRY_ATTEMPTS

ShouldRegenerate(is_corrupted, retry_count) ==
  is_corrupted /\ retry_count < CORRUPTION_RETRY_ATTEMPTS

\* Lines 416-477: quick_corruption_check of the written file and what follows.
QualityCheck ==
  /\ Running /\ Top.pc = "check"
  /\ \E verdict \in {"clean", "corrupted", "error"} :
       /\ verdict # "clean" => corrupts < MaxCorruptions
       /\ corrupts' = IF verdict = "clean" THEN corrupts ELSE corrupts + 1
       /\ LET lin == [Top.lin EXCEPT !.verdict = verdict,
                                     !.corr = IF verdict = "corrupted" THEN @ + 1 ELSE @,
                                     !.pf = @ \/ verdict = "error"]
              regenerate == ShouldRegenerate(verdict = "corrupted", Top.retry_count)
              large == cfg.auto_split /\ count_tokens(Top.chunk_text) > AUTO_SPLIT_TOKENS
              smaller_chunks == chunk_text_smartly(Top.chunk_text, RETRY_SPLIT_TOKENS)
          IN  IF ~regenerate
              THEN \* clean, detector error, or retries used up: return chunk_output_file
                   /\ stack' = Popped
                   /\ ret' = Returned(Top, lin)
                   /\ UNCHANGED <<fs, current_chunk_limit, chunk_step_index>>
              ELSE /\ fs' = Remove(fs, {Top.chunk_output_file})
                   /\ ret' = ret
                   /\ IF large /\ ~Top.safe_chunk_mode
                      THEN \* retry in safe chunk mode (a temporary generator in TTSGenerator)
                           LET g == IF cfg.impl = "tts" THEN "temp" ELSE Top.g
                           IN  /\ stack' = Append(ReplaceTop([Top EXCEPT !.pc = "regen", !.lin = FreshLineage]),
                                             NewFrame(Top.chunk_text, Top.chunk_output_file, TRUE,
                                                      Top.retry_count + 1, g, lin))
                               /\ IF cfg.impl = "tts"
                                  THEN /\ current_chunk_limit' =
                                            [current_chunk_limit EXCEPT !["temp"] = cfg.chunk_limit]
                                       /\ chunk_step_index' =
                                            [chunk_step_index EXCEPT !["temp"] = 0]
                                  ELSE UNCHANGED <<current_chunk_limit, chunk_step_index>>
                      ELSE IF large /\ Len(smaller_chunks) > 1
                      THEN /\ stack' = ReplaceTop([Top EXCEPT !.pc = "retry_loop", !.lin = SplitLineage,
                                                    !.sub_chunks = smaller_chunks,
                                                    !.sub_chunk_files = <<>>])
                           /\ UNCHANGED <<current_chunk_limit, chunk_step_index>>
                      ELSE /\ stack' = Append(ReplaceTop([Top EXCEPT !.pc = "regen", !.lin = FreshLineage]),
                                         NewFrame(Top.chunk_text, Top.chunk_output_file,
                                                  Top.safe_chunk_mode, Top.retry_count + 1,
                                                  Top.g, lin))
                           /\ UNCHANGED <<current_chunk_limit, chunk_step_index>>
  /\ UNCHANGED <<chunkVars, extVars, limVars, cfg, exc, ch, fails, last_call, dead>>

(***************************************************************************)
(* GenerationPipeline: generate_chapter_audio.  ch.pc is "start" at the    *)
(* top, "single" in the call for a chapter that fits one request, "loop"   *)
(* in the loop over the chunks, "done" after the return, "failed" after an *)
(* exception left the function.                                            *)
(***************************************************************************)
AtChapter == stack = <<>>

\* Lines 634-656.
ChapterStart ==
  /\ AtChapter /\ ch.pc = "start"
  /\ LET effective_limit == EffectiveLimit(current_chunk_limit["main"], cfg.safe_chunk_mode)
     IN  IF count_tokens(cfg.chapter_text) <= effective_limit
         THEN /\ stack' = << NewFrame(cfg.chapter_text, OUTPUT_FILE, cfg.safe_chunk_mode,
                                      0, "main", FreshLineage) >>
              /\ ch' = [ch EXCEPT !.pc = "single"]
         ELSE /\ ch' = [ch EXCEPT !.pc = "loop",
                                  !.chunks = chunk_text_smartly(cfg.chapter_text, effective_limit)]
              /\ stack' = stack
  /\ UNCHANGED <<chunkVars, extVars, limVars, cfg, current_chunk_limit, chunk_step_index, ret, exc, fs,
                 fails, corrupts, last_call, dead>>

\* Lines 660-668: the call for chunks[chunk_index].
ChapterNextChunk ==
  /\ AtChapter /\ ch.pc = "loop" /\ ret = NoReturn /\ exc = NoExc
  /\ ch.chunk_index < Len(ch.chunks)
  /\ LET chunk_output == OUTPUT_FILE \o << [k |-> "chunk", n |-> ch.chunk_file_counter] >>
     IN  stack' = << NewFrame(ch.chunks[ch.chunk_index + 1], chunk_output,
                              cfg.safe_chunk_mode, 0, "main", FreshLineage) >>
  /\ UNCHANGED <<chunkVars, extVars, limVars, cfg, current_chunk_limit, chunk_step_index, ret, exc, fs, ch,
                 fails, corrupts, last_call, dead>>

\* Lines 669-671 (a chunk is done) and line 647 (the single call returns).
ChapterChunkReturn ==
  /\ AtChapter /\ ret # NoReturn
  /\ ch.pc \in {"loop", "single"}
  /\ ch' = IF ch.pc = "loop"
           THEN [ch EXCEPT !.chunk_files = Append(@, ret.path),
                           !.chunk_index = @ + 1,
                           !.chunk_file_counter = @ + 1]
           ELSE [ch EXCEPT !.pc = "done", !.result = ret.path]
  /\ ret' = NoReturn
  /\ UNCHANGED <<chunkVars, extVars, limVars, cfg, current_chunk_limit, chunk_step_index, stack, exc, fs,
                 fails, corrupts, last_call, dead>>

\* Line 702: return combine_audio_chunks(chunk_files, output_file, music_generator)
ChapterCombine ==
  /\ AtChapter /\ ch.pc = "loop" /\ ret = NoReturn /\ exc = NoExc
  /\ ch.chunk_index = Len(ch.chunks)
  /\ LET c == combine_audio_chunks(ch.chunk_files, OUTPUT_FILE)
     IN  /\ fs' = c.files
         /\ ch' = IF c.ok THEN [ch EXCEPT !.pc = "done", !.result = c.path]
                  ELSE [ch EXCEPT !.pc = "failed", !.error = FileNotFound]
  /\ UNCHANGED <<chunkVars, extVars, limVars, cfg, current_chunk_limit, chunk_step_index, stack, ret, exc,
                 fails, corrupts, last_call, dead>>

\* Lines 673-699: an exception leaves generate_chunk_audio.  The except clause
\* re-chunks the failing chunk at a reduced limit; every other exception, and
\* every exception of the single call, leaves generate_chapter_audio.
ChapterRaised ==
  /\ AtChapter /\ exc # NoExc
  /\ ch.pc \in {"loop", "single"}
  /\ exc' = NoExc
  /\ IF ch.pc = "loop" /\ CaughtByChapter(exc) /\ IsServerErrorText(exc.msg) /\ CanReduce("main")
     THEN /\ current_chunk_limit' = reduce_chunk_limit_limit("main")
          /\ chunk_step_index' = reduce_chunk_limit_index("main")
          /\ LET new_effective_limit ==
                   EffectiveLimit(current_chunk_limit'["main"], cfg.safe_chunk_mode)
                 chunk == ch.chunks[ch.chunk_index + 1]
                 sub_chunks == chunk_text_smartly(chunk, new_effective_limit)
             IN  ch' = [ch EXCEPT !.chunks =
                          SubSeq(ch.chunks, 1, ch.chunk_index) \o sub_chunks
                            \o SubSeq(ch.chunks, ch.chunk_index + 2, Len(ch.chunks))]
     ELSE /\ ch' = [ch EXCEPT !.pc = "failed", !.error = exc]
          /\ UNCHANGED <<current_chunk_limit, chunk_step_index>>
  /\ UNCHANGED <<chunkVars, extVars, limVars, cfg, stack, ret, fs, fails, corrupts, last_call, dead>>

(***************************************************************************)
(* Spec: one chapter generated under every configuration of Configs, with  *)
(* at most MaxFailures failing provider calls and at most MaxCorruptions   *)
(* corrupted verdicts or detector errors.                                  *)
(***************************************************************************)
Alphabet == <<"a", "b", "c", "d", "e", "f", "g", "h", "i", "j", "k", "l", "m">>

\* Word i is three times letter i; the separators cycle through the three
\* granularities the chunker splits at.
RECURSIVE ChapterOf(_)
ChapterOf(n) ==
  IF n = 0 THEN <<>>
  ELSE LET word == Rep(Alphabet[n], 3)
           sep  == IF n = 1 THEN <<>>
                   ELSE IF n % 4 = 1 THEN <<"\n", "\n">>
                   ELSE IF n % 2 = 1 THEN <<".", " ">>
                   ELSE <<" ">>
       IN  ChapterOf(n - 1) \o sep \o word

\* Chapters of two, three and four words: 1, 3 and 4 tokens.
ShortChapters == { ChapterOf(n) : n \in {2, 3, 4} }

\* Chapters of 9 tokens (the default ceiling) and of 12 tokens.
LongChapters == { ChapterOf(n) : n \in {9, 11} }

ChapterTexts == ShortChapters \cup LongChapters

ConfiguredLimits == {DEFAULT_CHUNK_LIMIT, DEFAULT_CHUNK_LIMIT - 3}

Configs ==
  { c \in [impl : {"app", "tts"}, safe_chunk_mode : BOOLEAN, auto_split : BOOLEAN,
           detect : BOOLEAN, chunk_limit : ConfiguredLimits,
           chapter_text : ChapterTexts] :
      \* CURRENT_CHUNK_LIMIT of app.py is not configurable
      /\ c.impl = "app" => c.chunk_limit = DEFAULT_CHUNK_LIMIT
      \* auto-split is an option of corruption detection
      /\ c.auto_split => c.detect
      \* the long chapters are generated without corruption detection
      /\ c.detect => c.chapter_text \in ShortChapters }

(***************************************************************************)
(* RateLimiter: SmartRateLimiter and the calls QuotaAwareRetryHandler      *)
(* makes to it.  Time is in whole seconds.  The clock counts from the      *)
(* epoch; a limiter is constructed long after it.                          *)
(***************************************************************************)
KNOWN_MODEL == "gemini-2.5-pro-preview-tts"

DEFAULT_MODEL == "gemini-2.5-flash-preview-tts"

ModelKeys == {KNOWN_MODEL, DEFAULT_MODEL}

requests_per_minute == 15

tokens_per_minute == 10000

min_request_interval == 4

WINDOW_SECONDS == 60

\* RateLimit(requests_per_minute, tokens_per_minute) constructed at time t
RateLimit(rpm, tpm, t) ==
  [requests_per_minute |-> rpm, tokens_per_minute |-> tpm,
   current_requests |-> 0, current_tokens |-> 0, window_start |-> t]

\* SmartRateLimiter.__init__ at time t: the one key the limiter knows
SmartRateLimiter(t) ==
  [m \in {KNOWN_MODEL} |-> RateLimit(requests_per_minute, tokens_per_minute, t)]

reset_window_if_needed(limits, model, t) ==
  IF model \in DOMAIN limits /\ t - limits[model].window_start >= WINDOW_SECONDS
  THEN [limits EXCEPT ![model] = [@ EXCEPT !.current_requests = 0,
                                           !.current_tokens = 0,
                                           !.window_start = t]]
  ELSE limits

\* Lines 78-79 with the estimate left out of the token test.
OverQuotaIgnoringEstimate(rate_limit, estimated_tokens) ==
  \/ rate_limit.current_requests >= rate_limit.requests_per_minute
  \/ rate_limit.current_tokens > rate_limit.tokens_per_minute

OverQuota(rate_limit, estimated_tokens) ==
  \/ rate_limit.current_requests >= rate_limit.requests_per_minute
  \/ rate_limit.current_tokens + estimated_tokens > rate_limit.tokens_per_minute

\* can_make_request at time t: the limits after the window reset, and the
\* pair (can_proceed, wait_time) returned.
can_make_request(limits, lrt, model, estimated_tokens, t) ==
  LET after == reset_window_if_needed(limits, model, t)
      time_since_last == t - lrt
  IN  IF model \notin DOMAIN after
      THEN [limits |-> after, ready |-> TRUE, wait |-> 0]
      ELSE IF time_since_last < min_request_interval
      THEN [limits |-> after, ready |-> FALSE,
            wait |-> min_request_interval - time_since_last]
      ELSE IF OverQuota(after[model], estimated_tokens)
      THEN [limits |-> after, ready |-> FALSE,
            wait |-> Max(0, WINDOW_SECONDS - (t - after[model].window_start))]
      ELSE [limits |-> after, ready |-> TRUE, wait |-> 0]

\* Lines 99-100 with the request counted twice.
CountedTwice(rate_limit, actual_tokens) ==
  [rate_limit EXCEPT !.current_requests = @ + 2, !.current_tokens = @ + actual_tokens]

Counted(rate_limit, actual_tokens) ==
  [rate_limit EXCEPT !.current_requests = @ + 1, !.current_tokens = @ + actual_tokens]

\* record_request restarting the window it counts in.
RecordRestartingWindow(limits, lrt, model, actual_tokens, t) ==
  IF model \in DOMAIN limits
  THEN [limits |-> [limits EXCEPT ![model] =
                      [Counted(@, actual_tokens) EXCEPT !.window_start = t]],
        lrt |-> t]
  ELSE [limits |-> limits, lrt |-> lrt]

\* record_request at time t: the limits and last_request_time it leaves.
record_request(limits, lrt, model, actual_tokens, t) ==
  IF model \in DOMAIN limits
  THEN [limits |-> [limits EXCEPT ![model] = Counted(@, actual_tokens)], lrt |-> t]
  ELSE [limits |-> limits, lrt |-> lrt]

base_delay == 1

max_delay == 60

\* parse_retry_after of a message without retryDelay
DEFAULT_RETRY_DELAY == 60

\* Lines 156-157 without the cap of max_delay.
BackoffUncapped(attempt) == base_delay * 2 ^ attempt

exponential_backoff(attempt) == Min(base_delay * 2 ^ attempt, max_delay)

\* handle_429_error: the retry delay, 10 s per attempt made, and 10% of jitter
handle_429_error(attempt) ==
  DEFAULT_RETRY_DELAY + attempt * 10 + DEFAULT_RETRY_DELAY \div 10

\* the sleep before the next attempt
RetryDelay(status, attempt) ==
  IF status = 429 THEN handle_429_error(attempt) ELSE exponential_backoff(attempt)

NoDecision == [model |-> "", ready |-> FALSE, wait |-> 0]

Decided(model, d) == [model |-> model, ready |-> d.ready, wait |-> d.wait]

\* hc.pc: "idle" outside call_with_quota_awareness, "wait" in wait_for_rate_limit,
\* "call" in the attempt loop.  `records` counts the calls of record_request,
\* `started` holds the time the handler's latest provider call began; `attempt`
\* stays after the return.
IdleHandler ==
  [pc |-> "idle", model |-> "", estimated_tokens |-> 0, attempt |-> 0, polled |-> FALSE,
   records |-> 0, outcome |-> "none", started |-> <<>>, calls |-> 0]

MaxElapsed == 70

MaxCalls == 2

TokenEstimates == {1, 4000, 6000}

CallDurations == {0, 1}

Pauses == {56}

ClockEnd == WINDOW_SECONDS + MaxElapsed

\* The requests counted in a window during the last minute, after record_request
\* of `tokens` for `model` at time t.
Logged(model, tokens, t, limits) ==
  IF model \in DOMAIN limits
  THEN Append(SelectSeq(log, LAMBDA e : e.t > t - WINDOW_SECONDS),
              [t |-> t, tokens |-> tokens])
  ELSE log

\* Line 320 and lines 172-185: generate_audio_with_quota_awareness makes a
\* QuotaAwareRetryHandler, whose SmartRateLimiter is new, and calls it.
GenerateAudio ==
  /\ hc.pc = "idle" /\ hc.calls < MaxCalls /\ clock <= ClockEnd
  /\ \E model \in ModelKeys, estimated_tokens \in TokenEstimates :
       hc' = [IdleHandler EXCEPT !.pc = "wait", !.model = model,
                                 !.estimated_tokens = estimated_tokens,
                                 !.calls = hc.calls + 1]
  /\ rate_limits' = SmartRateLimiter(clock)
  /\ last_request_time' = 0
  /\ log' = <<>>
  /\ UNCHANGED <<chunkVars, extVars, pipeVars, clock, decision>>

\* Lines 133-137: QuotaAwareRetryHandler(), to be called later.
NewHandler ==
  /\ hc.pc = "idle" /\ hc.calls < MaxCalls /\ clock <= ClockEnd
  /\ hc' = [IdleHandler EXCEPT !.outcome = "new", !.calls = hc.calls]
  /\ rate_limits' = SmartRateLimiter(clock)
  /\ last_request_time' = 0
  /\ log' = <<>>
  /\ UNCHANGED <<chunkVars, extVars, pipeVars, clock, decision>>

\* Lines 172-185: call_with_quota_awareness of a handler made before.
HandlerCall ==
  /\ hc.pc = "idle" /\ hc.calls < MaxCalls /\ clock <= ClockEnd /\ hc.outcome # "none"
  /\ \E model \in ModelKeys, estimated_tokens \in TokenEstimates :
       hc' = [IdleHandler EXCEPT !.pc = "wait", !.model = model,
                                 !.estimated_tokens = estimated_tokens,
                                 !.started = hc.started, !.calls = hc.calls + 1]
  /\ UNCHANGED <<chunkVars, extVars, pipeVars, clock, rate_limits, last_request_time, decision, log>>

\* Lines 108-127: one turn of the loop of wait_for_rate_limit.
WaitForRateLimit ==
  /\ hc.pc = "wait"
  /\ LET d == can_make_request(rate_limits, last_request_time, hc.model,
                               hc.estimated_tokens, clock)
     IN  /\ rate_limits' = d.limits
         /\ IF d.ready
            THEN /\ hc' = [hc EXCEPT !.pc = "call", !.polled = TRUE]
                 /\ clock' = clock
            ELSE /\ clock + d.wait <= ClockEnd
                 /\ hc' = [hc EXCEPT !.polled = TRUE]
                 /\ clock' = clock + d.wait
  /\ UNCHANGED <<chunkVars, extVars, pipeVars, last_request_time, decision, log>>

\* Lines 197-214: func returns after `took` seconds; the request is recorded and
\* the result returned.
AttemptSucceeds ==
  /\ hc.pc = "call"
  /\ \E took \in CallDurations :
       LET r == record_request(rate_limits, last_request_time, hc.model,
                               hc.estimated_tokens, clock + took)
       IN  /\ clock' = clock + took
           /\ rate_limits' = r.limits
           /\ last_request_time' = r.lrt
           /\ log' = Logged(hc.model, hc.estimated_tokens, clock + took, r.limits)
  /\ hc' = [IdleHandler EXCEPT !.outcome = "result", !.records = hc.records + 1,
                               !.attempt = hc.attempt,
                               !.started = <<clock>>, !.calls = hc.calls]
  /\ UNCHANGED <<chunkVars, extVars, pipeVars, decision>>

\* Lines 216-286: func raises at once (the provider refuses the request); the
\* handler sleeps and goes on to the next attempt, or raises.
AttemptFails ==
  /\ hc.pc = "call"
  /\ \E status \in Statuses :
       LET e == call_with_quota_awareness(status, {}, hc.attempt)
       IN  IF e = Continue
           THEN /\ clock' = clock + RetryDelay(status, hc.attempt)
                /\ hc' = [hc EXCEPT !.attempt = @ + 1, !.started = <<clock>>]
           ELSE /\ clock' = clock
                /\ hc' = [IdleHandler EXCEPT !.outcome = "exception",
                                             !.records = hc.records,
                                             !.attempt = hc.attempt,
                                             !.started = <<clock>>,
                                             !.calls = hc.calls]
  /\ UNCHANGED <<chunkVars, extVars, pipeVars, rate_limits, last_request_time, decision, log>>

\* Time passes between two calls.
Pause ==
  /\ hc.pc = "idle"
  /\ \E d \in Pauses : clock + d <= ClockEnd /\ clock' = clock + d
  /\ UNCHANGED <<chunkVars, extVars, pipeVars, rate_limits, last_request_time, decision, hc, log>>

\* No limiter is at work while the pipeline or the chunker is exercised.
LimIdle ==
  /\ clock = WINDOW_SECONDS
  /\ rate_limits = SmartRateLimiter(WINDOW_SECONDS)
  /\ last_request_time = 0
  /\ decision = NoDecision
  /\ hc = IdleHandler
  /\ log = <<>>

(***************************************************************************)
(* SmartRateLimiter called directly: can_make_request and record_request   *)
(* in any order, for any model key, while time passes.                     *)
(***************************************************************************)
Elapses == {3, 60}

TokenCounts == {700}

Elapse ==
  /\ \E d \in Elapses : clock + d <= ClockEnd /\ clock' = clock + d
  /\ UNCHANGED <<chunkVars, extVars, pipeVars, rate_limits, last_request_time, decision, hc, log>>

CanMakeRequest ==
  /\ \E model \in ModelKeys, estimated_tokens \in TokenEstimates :
       LET d == can_make_request(rate_limits, last_request_time, model,
                                 estimated_tokens, clock)
       IN  /\ rate_limits' = d.limits
           /\ decision' = Decided(model, d)
  /\ UNCHANGED <<chunkVars, extVars, pipeVars, clock, last_request_time, hc, log>>

RecordRequest ==
  /\ rate_limits[KNOWN_MODEL].current_requests <= requests_per_minute
  /\ \E model \in ModelKeys, actual_tokens \in TokenCounts :
       LET r == record_request(rate_limits, last_request_time, model, actual_tokens, clock)
       IN  /\ rate_limits' = r.limits
           /\ last_request_time' = r.lrt
  /\ UNCHANGED <<chunkVars, extVars, pipeVars, clock, decision, hc, log>>

(***************************************************************************)
(* AudioQualityDetector: the rules of _analyze_corruption_patterns, the    *)
(* decision of detect_corruption and the recommendations of the report.    *)
(* Confidences are in hundredths; the mean of the confidence scores is     *)
(* kept as the pair of their sum and their number.                         *)
(***************************************************************************)
corruption_confidence_threshold == 70

\* The tests on the metrics, in the order _analyze_corruption_patterns makes
\* them; once marks the rule that fires only if its kind was not found yet.
MetricRules == <<
  [test |-> "duration",  kind |-> "incomplete_generation", confidence |-> 90, once |-> FALSE],
  [test |-> "silence",   kind |-> "excessive_silence",     confidence |-> 80, once |-> FALSE],
  [test |-> "cutoff",    kind |-> "sudden_cutoff",         confidence |-> 90, once |-> FALSE],
  [test |-> "clipping",  kind |-> "clipping",              confidence |-> 80, once |-> FALSE],
  [test |-> "spikes",    kind |-> "volume_spike",          confidence |-> 85, once |-> FALSE],
  [test |-> "high_freq", kind |-> "static_noise",          confidence |-> 70, once |-> FALSE],
  [test |-> "flatness",  kind |-> "frequency_anomaly",     confidence |-> 60, once |-> FALSE],
  [test |-> "snr",       kind |-> "low_quality",           confidence |-> 70, once |-> FALSE],
  [test |-> "zcr",       kind |-> "digital_artifacts",     confidence |-> 60, once |-> FALSE],
  [test |-> "hnr",       kind |-> "low_quality",           confidence |-> 60, once |-> TRUE] >>

\* The three detectors that return (found, confidence), in the order called.
DetectorRules == <<
  [test |-> "speed",     kind |-> "speed_distortion"],
  [test |-> "reverse",   kind |-> "reverse_speech"],
  [test |-> "gibberish", kind |-> "gibberish_artifacts"] >>

RECURSIVE MetricLoop(_, _, _)
MetricLoop(holds, i, st) ==
  IF i > Len(MetricRules) THEN st
  ELSE LET r == MetricRules[i]
           fires == /\ r.test \in holds
                    /\ (r.once => r.kind \notin Range(st.corruption_types))
       IN  MetricLoop(holds, i + 1,
             IF fires
             THEN [corruption_types  |-> Append(st.corruption_types, r.kind),
                   confidence_scores |-> Append(st.confidence_scores, r.confidence)]
             ELSE st)

RECURSIVE DetectorLoop(_, _, _)
DetectorLoop(found, i, st) ==
  IF i > Len(DetectorRules) THEN st
  ELSE LET r == DetectorRules[i]
           d == found[r.test]
       IN  DetectorLoop(found, i + 1,
             IF d.is_found /\ d.confidence > 50
             THEN [corruption_types  |-> Append(st.corruption_types, r.kind),
                   confidence_scores |-> Append(st.confidence_scores, d.confidence)]
             ELSE st)

RECURSIVE SumScores(_)
SumScores(scores) ==
  IF scores = <<>> THEN 0 ELSE scores[1] + SumScores(Tail(scores))

_analyze_corruption_patterns(holds, found) ==
  LET st == DetectorLoop(found, 1,
              MetricLoop(holds, 1, [corruption_types |-> <<>>, confidence_scores |-> <<>>]))
  IN  [corruption_types |-> st.corruption_types,
       \* np.mean(confidence_scores), or 0.0 when no rule fired
       confidence       |-> [sum |-> SumScores(st.confidence_scores),
                             n   |-> Len(st.confidence_scores)]]

\* confidence >= threshold, for a mean kept as sum and number.
NotBelow(confidence, threshold) ==
  IF confidence.n = 0 THEN 0 >= threshold
  ELSE confidence.sum >= threshold * confidence.n

\* The kinds _generate_recommendations has a branch for, in the order of the
\* branches, with the recommendations each branch adds.
RecommendationRules == <<
  [kind |-> "sudden_cutoff",
   recs |-> <<"Regenerate this chunk - API response was truncated",
              "Try reducing chunk size or using safe chunk mode",
              "Check internet connection stability">>],
  [kind |-> "excessive_silence",
   recs |-> <<"Check input text for excessive whitespace",
              "Verify text preprocessing is working correctly",
              "Regenerate with different prompt">>],
  [kind |-> "static_noise",
   recs |-> <<"API corruption detected - regenerate immediately",
              "Enable safe chunk mode to reduce API stress",
              "Wait a few seconds before retrying">>],
  [kind |-> "volume_spike",
   recs |-> <<"Severe API corruption - regenerate required",
              "May indicate API server issues",
              "Use safe chunk mode and smaller chunks">>],
  [kind |-> "clipping",
   recs |-> <<"Audio levels too high - API configuration issue",
              "Check TTS voice settings",
              "Regenerate with different voice or prompt">>],
  [kind |-> "low_quality",
   recs |-> <<"Poor audio quality detected",
              "Try different narrator voice",
              "Use more descriptive prompts for better quality">>],
  [kind |-> "speed_distortion",
   recs |-> <<"Speed distortion detected - severe API corruption",
              "Regenerate immediately with safe chunk mode",
              "Use smaller chunks to reduce API stress",
              "Wait before retrying - may indicate server overload">>],
  [kind |-> "reverse_speech",
   recs |-> <<"Reverse speech corruption - critical API failure",
              "Regenerate immediately - this is severe corruption",
              "Enable safe chunk mode and reduce chunk sizes",
              "Consider reporting this to Google AI support">>],
  [kind |-> "gibberish_artifacts",
   recs |-> <<"Gibberish/artifacts detected - API processing failure",
              "Regenerate with different prompt or voice",
              "Check input text for unusual characters or formatting",
              "Use safe chunk mode for more reliable processing">>] >>

RECURSIVE RecommendationLoop(_, _, _)
RecommendationLoop(corruption_types, i, recommendations) ==
  IF i > Len(RecommendationRules) THEN recommendations
  ELSE RecommendationLoop(corruption_types, i + 1,
         IF RecommendationRules[i].kind \in Range(corruption_types)
         THEN recommendations \o RecommendationRules[i].recs
         ELSE recommendations)

_generate_recommendations(corruption_types) ==
  LET recommendations == RecommendationLoop(corruption_types, 1, <<>>)
  IN  IF recommendations = <<>> THEN <<"Audio quality is acceptable">>
      ELSE recommendations

detect_corruption(holds, found, threshold, generate_report) ==
  LET a == _analyze_corruption_patterns(holds, found)
  IN  [is_corrupted     |-> /\ Len(a.corruption_types) > 0
                            /\ NotBelow(a.confidence, threshold),
       corruption_types |-> a.corruption_types,
       confidence_score |-> a.confidence,
       recommendations  |-> IF generate_report
                            THEN _generate_recommendations(a.corruption_types)
                            ELSE <<>>]

\* The thresholds a detector is built with: the default and a stricter one.
Thresholds == {corruption_confidence_threshold, 85}

IdleDetector ==
  [pc |-> "idle", threshold |-> corruption_confidence_threshold,
   generate_report |-> FALSE,
   report |-> [is_corrupted |-> FALSE, corruption_types |-> <<>>,
               confidence_score |-> [sum |-> 0, n |-> 0], recommendations |-> <<>>]]

\* One call of detect_corruption that analyses its file.  A detector answers
\* that it found nothing, or that it found its kind with some confidence.
DetectCorruption ==
  /\ det.pc = "idle"
  /\ \E holds \in SUBSET { MetricRules[i].test : i \in 1..Len(MetricRules) },
        found \in [ { DetectorRules[i].test : i \in 1..Len(DetectorRules) } ->
                     { [is_found |-> FALSE, confidence |-> 0] } \cup
                     { [is_found |-> TRUE, confidence |-> c] : c \in {50, 60, 90} } ],
        threshold \in Thresholds, generate_report \in BOOLEAN :
       det' = [pc |-> "done", threshold |-> threshold,
               generate_report |-> generate_report,
               report |-> detect_corruption(holds, found, threshold, generate_report)]
  /\ UNCHANGED <<chunkVars, pipeVars, limVars, project_state, job, threads>>

\* One call of detect_corruption whose analysis raises: the except branch
\* reports the file as corrupted.
AnalysisFails ==
  /\ det.pc = "idle"
  /\ \E threshold \in Thresholds, generate_report \in BOOLEAN :
       det' = [pc |-> "failed", threshold |-> threshold,
               generate_report |-> generate_report,
               report |-> [is_corrupted     |-> TRUE,
                           corruption_types |-> <<"digital_artifacts">>,
                           confidence_score |-> [sum |-> 50, n |-> 1],
                           recommendations  |-> <<"Regenerate this audio chunk">>]]
  /\ UNCHANGED <<chunkVars, pipeVars, limVars, project_state, job, threads>>

\* The caller drops the report; the detector is ready for the next file.
DetectorReturn ==
  /\ det.pc # "idle"
  /\ det' = IdleDetector
  /\ UNCHANGED <<chunkVars, pipeVars, limVars, project_state, job, threads>>

(***************************************************************************)
(* The job drivers: main() of app.py and generate_audiobook of the GUI,    *)
(* over the project state kept by ProjectStateManager and the files of     *)
(* the output directory (fs).  generate_chapter_audio is one step here:    *)
(* it calls the provider for the chapter and either raises or exports the  *)
(* chapter's audio under the name handle_file_collision gives it.          *)
(***************************************************************************)
MaxRuns == 2

\* get_chapter_files(): the chapters of the job, sorted.
chapter_files == <<"chapter_1", "chapter_2", "chapter_3">>

\* f"output/{chapter_name}.wav"
OutputFile(chapter) == <<"output", chapter>>

\* load_project_state of a project id that has no state file yet.
NoProjectState == [exists |-> FALSE, keys |-> {}, completed_chunks |-> <<>>]

get_completed_chunks(state) ==
  IF state.exists /\ "completed_chunks" \in state.keys THEN state.completed_chunks
  ELSE <<>>

\* A mark_chunk_completed that starts the list again.
MarkRestartingList(state, chunk_filename) ==
  [exists |-> TRUE, keys |-> state.keys \cup {"completed_chunks", "last_updated"},
   completed_chunks |-> <<chunk_filename>>]

\* The state file after mark_chunk_completed(project_id, chunk_filename).
mark_chunk_completed(state, chunk_filename) ==
  LET loaded == IF state.exists THEN state
                ELSE [exists |-> TRUE, keys |-> {"completed_chunks"},
                      completed_chunks |-> <<>>]
      st     == IF "completed_chunks" \in loaded.keys THEN loaded
                ELSE [loaded EXCEPT !.keys = @ \cup {"completed_chunks"},
                                    !.completed_chunks = <<>>]
  IN  IF chunk_filename \in Range(st.completed_chunks) THEN state
      ELSE [st EXCEPT !.keys = @ \cup {"last_updated"},
                      !.completed_chunks = Append(@, chunk_filename)]

\* The state file after save_file_info(project_id, 'chapters').
save_file_info(state) ==
  LET loaded == IF state.exists THEN state
                ELSE [exists |-> TRUE, keys |-> {}, completed_chunks |-> <<>>]
  IN  [loaded EXCEPT !.keys = @ \cup {"file_info", "last_updated"}]

\* combine_chapters: the audio of the files it can read, in the order given.
RECURSIVE combine_chapters(_)
combine_chapters(audio_files) ==
  IF audio_files = <<>> THEN <<>>
  ELSE (IF Exists(Head(audio_files)) THEN fs[Head(audio_files)] ELSE <<>>)
       \o combine_chapters(Tail(audio_files))

Threads == {1, 2}

\* A thread that is not using the limiter.
IdleThread == [pc |-> "idle", estimated_tokens |-> 0, until |-> 0]

IdleJob ==
  [driver |-> "none", pc |-> "off", completed_chunks |-> <<>>, to_process |-> <<>>,
   i |-> 0, generated_files |-> <<>>, called |-> {}, marked |-> {},
   final |-> <<>>, runs |-> 0]

\* No detector, job driver or thread is at work.
ExtIdle ==
  /\ det = IdleDetector
  /\ project_state = NoProjectState
  /\ job = IdleJob
  /\ threads = [t \in Threads |-> IdleThread]

pipeRest == <<cfg, current_chunk_limit, chunk_step_index, stack, ret, exc, ch,
              fails, corrupts, last_call, dead>>

\* Before the first run, the output directory already holds a file under the
\* output name of a chapter.
FilePresent ==
  /\ job.runs = 0 /\ job.pc = "off"
  /\ \E i \in 1..Len(chapter_files) :
       /\ ~Exists(OutputFile(chapter_files[i]))
       /\ fs' = Write(fs, OutputFile(chapter_files[i]), <<"other">>)
  /\ UNCHANGED <<chunkVars, limVars, pipeRest, det, threads, project_state, job>>

\* No run is in progress: none was started yet, or the last one has ended.
Between == job.pc \in {"off", "done", "aborted", "returned"} /\ job.runs < MaxRuns

\* main(): the project state is read once, before the chapter loop.
MainStart ==
  /\ Between
  /\ job' = [IdleJob EXCEPT !.driver = "main", !.pc = "loop",
               !.completed_chunks = get_completed_chunks(project_state),
               !.to_process = chapter_files, !.i = 1,
               !.marked = job.marked, !.runs = job.runs + 1]
  /\ UNCHANGED <<chunkVars, limVars, pipeVars, det, threads, project_state>>

\* One turn of the chapter loop of main(): a completed chapter is skipped,
\* another one is generated and marked, or generate_chapter_audio raises.
MainChapter ==
  /\ job.driver = "main" /\ job.pc = "loop" /\ job.i <= Len(job.to_process)
  /\ LET chapter     == job.to_process[job.i]
         output_file == OutputFile(chapter)
         actual_output_file == get_available_filename(output_file, 0)
     IN  IF output_file \in Range(job.completed_chunks)
         THEN /\ job' = [job EXCEPT !.generated_files = Append(@, output_file),
                                    !.i = @ + 1]
              /\ UNCHANGED <<fs, project_state>>
         ELSE \/ /\ fs' = Write(fs, actual_output_file, <<chapter>>)
                 /\ project_state' = mark_chunk_completed(project_state, actual_output_file)
                 /\ job' = [job EXCEPT !.generated_files = Append(@, actual_output_file),
                                       !.called = @ \cup {chapter},
                                       !.marked = @ \cup {chapter},
                                       !.i = @ + 1]
              \/ /\ job' = [job EXCEPT !.pc = "aborted", !.called = @ \cup {chapter}]
                 /\ UNCHANGED <<fs, project_state>>
  /\ UNCHANGED <<chunkVars, limVars, pipeRest, det, threads>>

\* main() after the loop: the chapters are combined, the file info is saved.
MainCombine ==
  /\ job.driver = "main" /\ job.pc = "loop" /\ job.i > Len(job.to_process)
  /\ job' = [job EXCEPT !.pc = "done", !.final = combine_chapters(job.generated_files)]
  /\ project_state' = save_file_info(project_state)
  /\ UNCHANGED <<chunkVars, limVars, pipeVars, det, threads>>

\* generate_audiobook of the GUI, up to its loop: file_chunks carries the
\* completed flags read from the project state when the project was loaded;
\* the resume option selects the chunks to process, and the files of the
\* chunks taken as completed go first into generated_files.
GuiStart ==
  /\ Between
  /\ \E resume_option \in {"from_beginning", "from_selected", "skip_completed"},
        start_index \in 1..Len(chapter_files) :
       LET done(chapter) ==
             OutputFile(chapter) \in Range(get_completed_chunks(project_state))
           chunks_to_process ==
             CASE resume_option = "from_beginning" -> chapter_files
               [] resume_option = "from_selected" ->
                    SubSeq(chapter_files, start_index, Len(chapter_files))
               [] OTHER -> SelectSeq(chapter_files, LAMBDA c : ~done(c))
           completed_chunks ==
             IF resume_option = "skip_completed"
             THEN SelectSeq(chapter_files, done) ELSE <<>>
           present(chapter) == Exists(OutputFile(chapter))
           files == SelectSeq(completed_chunks, present)
       IN  /\ resume_option # "from_selected" => start_index = 1
           /\ job' = [IdleJob EXCEPT
                        !.driver = "gui",
                        !.pc = IF chunks_to_process = <<>> THEN "returned" ELSE "loop",
                        !.completed_chunks = completed_chunks,
                        !.to_process = chunks_to_process, !.i = 1,
                        !.generated_files =
                           [k \in 1..Len(files) |-> OutputFile(files[k])],
                        !.marked = job.marked, !.runs = job.runs + 1]
  /\ UNCHANGED <<chunkVars, limVars, pipeVars, det, threads, project_state>>

\* One turn of the loop of generate_audiobook: the chunk is generated and
\* marked under its output name, or generate_chapter_with_custom_prompt raises.
GuiChapter ==
  /\ job.driver = "gui" /\ job.pc = "loop" /\ job.i <= Len(job.to_process)
  /\ LET chapter     == job.to_process[job.i]
         output_file == OutputFile(chapter)
         actual_output_file == get_available_filename(output_file, 0)
     IN  \/ /\ fs' = Write(fs, actual_output_file, <<chapter>>)
            /\ project_state' = mark_chunk_completed(project_state, output_file)
            /\ job' = [job EXCEPT !.generated_files = Append(@, actual_output_file),
                                  !.called = @ \cup {chapter},
                                  !.marked = @ \cup {chapter},
                                  !.i = @ + 1]
         \/ /\ job' = [job EXCEPT !.pc = "aborted", !.called = @ \cup {chapter}]
            /\ UNCHANGED <<fs, project_state>>
  /\ UNCHANGED <<chunkVars, limVars, pipeRest, det, threads>>

\* generate_audiobook after the loop.
GuiCombine ==
  /\ job.driver = "gui" /\ job.pc = "loop" /\ job.i > Len(job.to_process)
  /\ job' = [job EXCEPT !.pc = "done", !.final = combine_chapters(job.generated_files)]
  /\ project_state' = save_file_info(project_state)
  /\ UNCHANGED <<chunkVars, limVars, pipeVars, det, threads>>

ChunkIdle ==
  /\ in_text = <<>>
  /\ in_max_tokens = 1
  /\ out_chunks = <<>>
  /\ chunk_pc = "off"

PipeInit ==
  /\ cfg \in Configs
  /\ current_chunk_limit = [g \in Generators |-> cfg.chunk_limit]
  /\ chunk_step_index = [g \in Generators |-> 0]
  /\ stack = <<>>
  /\ ret = NoReturn
  /\ exc = NoExc
  /\ fs = <<>>
  /\ ch = [pc |-> "start", chunks |-> <<>>, chunk_index |-> 0, chunk_file_counter |-> 1,
           chunk_files |-> <<>>, result |-> <<>>, error |-> NoExc]
  /\ fails = 0
  /\ corrupts = 0
  /\ last_call = NoCall
  /\ dead = {}

Init == ExtIdle /\ PipeInit /\ ChunkIdle /\ LimIdle

Next ==
  \/ ChapterStart
  \/ ChapterNextChunk
  \/ ChapterChunkReturn
  \/ ChapterCombine
  \/ ChapterRaised
  \/ GenEnter
  \/ GenSubNext
  \/ GenSubReturn
  \/ GenSubCombine
  \/ GenChildRaised
  \/ GenRegenReturn
  \/ ProviderSuccess
  \/ ProviderFailure
  \/ QualityCheck

vars == <<chunkVars, pipeVars, limVars, extVars>>

Spec == Init /\ [][Next]_vars

(***************************************************************************)
(* SpecChunk: chunk_text_smartly applied to every text made of at most     *)
(* MaxPieces pieces and every budget 1..MaxBudget.  The pieces are a short *)
(* word, a word that is over every budget on its own, and the separators   *)
(* of the three granularities (space, sentence end, blank line).           *)
(***************************************************************************)
MaxPieces == 5

MaxBudget == 2

\* The longest text that count_tokens puts within budget b is 4b+3 long.
LongWord == Rep("b", 4 * MaxBudget + 4)

Pieces == { <<"a">>, LongWord, <<" ">>, <<".", " ">>, <<"\n", "\n">> }

RECURSIVE TextsOf(_)
TextsOf(n) ==
  IF n = 0 THEN { <<>> }
  ELSE LET shorter == TextsOf(n - 1)
       IN  shorter \cup { t \o p : t \in shorter, p \in Pieces }

ChunkInit ==
  /\ in_text \in TextsOf(MaxPieces)
  /\ in_max_tokens \in 1..MaxBudget
  /\ out_chunks = <<>>
  /\ chunk_pc = "input"

ChunkCall ==
  /\ chunk_pc = "input"
  /\ out_chunks' = chunk_text_smartly(in_text, in_max_tokens)
  /\ chunk_pc' = "done"
  /\ UNCHANGED <<in_text, in_max_tokens, extVars, pipeVars, limVars>>

\* The pipeline is not running while the chunker is exercised on its own.
PipeIdle ==
  /\ cfg = CHOOSE c \in Configs : TRUE
  /\ current_chunk_limit = [g \in Generators |-> DEFAULT_CHUNK_LIMIT]
  /\ chunk_step_index = [g \in Generators |-> 0]
  /\ stack = <<>>
  /\ ret = NoReturn
  /\ exc = NoExc
  /\ fs = <<>>
  /\ ch = [pc |-> "off", chunks |-> <<>>, chunk_index |-> 0, chunk_file_counter |-> 1,
           chunk_files |-> <<>>, result |-> <<>>, error |-> NoExc]
  /\ fails = 0
  /\ corrupts = 0
  /\ last_call = NoCall
  /\ dead = {}

InitChunk == ExtIdle /\ ChunkInit /\ PipeIdle /\ LimIdle

SpecChunk == InitChunk /\ [][ChunkCall]_vars

(***************************************************************************)
(* SpecLimiter: one SmartRateLimiter under direct calls.  SpecHandler: the *)
(* calls of generate_audio_with_quota_awareness and of                     *)
(* call_with_quota_awareness, one after the other.                         *)
(***************************************************************************)
InitLimiter == ExtIdle /\ LimIdle /\ PipeIdle /\ ChunkIdle

NextLimiter ==
  \/ Elapse
  \/ CanMakeRequest
  \/ RecordRequest

SpecLimiter == InitLimiter /\ [][NextLimiter]_vars

InitHandler == ExtIdle /\ LimIdle /\ ChunkIdle /\ PipeIdle

NextHandler ==
  \/ GenerateAudio
  \/ NewHandler
  \/ HandlerCall
  \/ WaitForRateLimit
  \/ AttemptSucceeds
  \/ AttemptFails
  \/ Pause

SpecHandler == InitHandler /\ [][NextHandler]_vars

(***************************************************************************)
(* C1: every unit returned by chunk_text_smartly(t, b), b >= 1, has        *)
(* count_tokens(unit) <= b.  The code breaks it: a word that is over the   *)
(* budget and follows another word of its sentence is flushed whole by     *)
(* the word loop, and the final verification pass re-emits it whole.       *)
(***************************************************************************)
C1_EveryUnitWithinBudget ==
  chunk_pc = "done" =>
    \A i \in 1..Len(out_chunks) : count_tokens(out_chunks[i]) <= in_max_tokens

(***************************************************************************)
(* Steps and texts the properties below speak of.                          *)
(***************************************************************************)
\* A step in which generate_audio_with_quota_awareness calls the provider.
ProviderCall == Running /\ Top.pc = "call" /\ stack' # stack

ProviderFailed == ProviderCall /\ fails' = fails + 1

\* The limit in force for the call on top of the stack.
LimitInForce == EffectiveLimit(current_chunk_limit[Top.g], Top.safe_chunk_mode)

BudgetUnchanged ==
  current_chunk_limit' = current_chunk_limit /\ chunk_step_index' = chunk_step_index

\* The style instructions a user may give: none, or one of no interest.
CustomPrompts == { <<>>, <<"s">> }

\* Text without its whitespace.
Squash(text) == SelectSeq(text, LAMBDA c : c \notin Whitespace)

\* The texts behind the buffers of an audio file, in order.
RECURSIVE TextOf(_)
TextOf(content) ==
  IF content = <<>> THEN <<>> ELSE Head(content).text \o TextOf(Tail(content))

NotAutoSplit(text) == ~(cfg.auto_split /\ count_tokens(text) > AUTO_SPLIT_TOKENS)

(***************************************************************************)
(* C2: at every provider call the text submitted (the TTS prompt) has      *)
(* count_tokens <= the effective limit in force.  The code compares        *)
(* chunk_text, not the prompt, with the limit: a chunk at the limit is     *)
(* submitted behind a style prefix that puts the prompt over it.           *)
(***************************************************************************)
C2_PromptWithinLimit ==
  [][ProviderCall =>
       \A custom_prompt \in CustomPrompts :
         count_tokens(tts_prompt(Top.chunk_text, custom_prompt)) <= LimitInForce]_vars

\* C2 as amended: at every provider call the chunk_text inside the submitted
\* prompt has count_tokens <= the effective limit in force at that moment.
C2_ChunkTextWithinLimit ==
  [][ProviderCall => count_tokens(Top.chunk_text) <= LimitInForce]_vars

\* A provider call has just been made for a chunk exactly at a limit that was
\* reduced before.
C2_Witness ==
  /\ last_call.status = 200 /\ stack # <<>> /\ Top.pc = "check"
  /\ chunk_step_index[Top.g] > 0
  /\ count_tokens(Top.chunk_text) = LimitInForce

(***************************************************************************)
(* C3: for any configured default ceiling the token budget never increases *)
(* from one step to the next and is always the default ceiling or a step   *)
(* of the reduction ladder.  TTSGenerator takes its ceiling from           *)
(* CHUNK_LIMIT: under a ceiling below the first ladder step, the first     *)
(* reduction raises the budget to that step.                               *)
(***************************************************************************)
C3_BudgetNeverIncreases ==
  [][/\ current_chunk_limit'["main"] <= current_chunk_limit["main"]
     /\ current_chunk_limit'["main"] \in {cfg.chunk_limit} \cup Range(CHUNK_REDUCTION_STEPS)]_vars

(***************************************************************************)
(* C4: a retry round whose max_retries+1 calls all fail with HTTP 500 or   *)
(* 502 reduces the budget once, to the next ladder step, and the unit is   *)
(* tried again.  In the code the exhausted round raises                    *)
(* MaxRetriesExceededError("Server errors after 3 retries"), a text the    *)
(* error handlers do not take for a server error: nothing is reduced and   *)
(* the exception leaves generate_chunk_audio.                              *)
(***************************************************************************)
C4_ExhaustedRoundReducesOnce ==
  [][(/\ ProviderFailed
      /\ Top.attempt = max_retries
      /\ last_call'.round = "5xx"
      /\ CanReduce(Top.g))
       => /\ chunk_step_index'[Top.g] = chunk_step_index[Top.g] + 1
          /\ current_chunk_limit'[Top.g] = CHUNK_REDUCTION_STEPS[chunk_step_index'[Top.g]]
          /\ exc' = NoExc
          /\ stack' = ReplaceTop(NewFrame(Top.chunk_text, Top.chunk_output_file,
                                          Top.safe_chunk_mode, 0, Top.g,
                                          [Top.lin EXCEPT !.pf = TRUE]))]_vars

(***************************************************************************)
(* C5: a provider call that fails with 503, on whatever attempt, is the    *)
(* last call for its unit: the retry handler raises                        *)
(* ServiceUnavailableError, the error handler of generate_chunk_audio      *)
(* reduces nothing and re-raises it to the caller of that invocation, and  *)
(* no provider call is ever made for a unit that had a 503.                *)
(***************************************************************************)
C5_ServiceUnavailableStops ==
  [][ProviderCall =>
       /\ \A d \in dead : d.status = 503 => d.out # Top.chunk_output_file
       /\ last_call'.status = 503 =>
            /\ exc' = ServiceUnavailable
            /\ stack' = Popped
            /\ BudgetUnchanged]_vars

\* ServiceUnavailableError is on its way to the caller after a 503 that came on
\* a later attempt of the retry loop.
C5_Witness ==
  /\ exc = ServiceUnavailable
  /\ last_call.status = 503
  /\ last_call.attempt > 0

(***************************************************************************)
(* C6: when the calls of a round all fail with 429, the retry handler      *)
(* goes on to another attempt after each of the first max_retries calls    *)
(* and raises QuotaExhaustedError after call max_retries+1; no 429 reduces *)
(* the budget, and the error is raised to the caller of                    *)
(* generate_chunk_audio.                                                   *)
(***************************************************************************)
C6_QuotaExhaustedAfterRetries ==
  [][(ProviderCall /\ last_call'.round = "429") =>
       /\ BudgetUnchanged
       /\ Top.attempt < max_retries =>
            /\ exc' = NoExc
            /\ stack' = ReplaceTop([Top EXCEPT !.attempt = @ + 1,
                                               !.round = RoundWith(@, 429)])
       /\ Top.attempt = max_retries =>
            /\ exc' = QuotaExhausted
            /\ exc'.cls \notin {"MaxRetriesExceededError", "HTTPAPIError",
                                "ServiceUnavailableError"}
            /\ stack' = Popped]_vars

\* QuotaExhaustedError is on its way to the caller after max_retries+1 calls
\* that all failed with 429.
C6_Witness ==
  /\ exc = QuotaExhausted
  /\ last_call.round = "429"
  /\ fails = max_retries + 1

(***************************************************************************)
(* C7: a provider call that fails with a 4xx other than 429 is fatal at    *)
(* once, whatever the provider's message: HTTPAPIError leaves              *)
(* generate_chunk_audio and the budget is unchanged.  The code searches    *)
(* the message of HTTPAPIError, which embeds the provider's, for "500",    *)
(* "502" and "timeout": on a match it reduces the budget and calls again.  *)
(***************************************************************************)
C7_ClientErrorIsFatal ==
  [][(ProviderCall /\ last_call'.status \in ClientErrors) =>
       /\ exc'.cls = "HTTPAPIError"
       /\ stack' = Popped
       /\ BudgetUnchanged]_vars

(***************************************************************************)
(* C8: every path generate_chunk_audio returns names an audio file that    *)
(* exists; a failed generation raises instead.  In the code the calls that *)
(* regenerate a corrupted chunk stand inside the try of the corruption     *)
(* check: what they raise is caught there, and the function returns the    *)
(* path of the file it removed before regenerating.                        *)
(***************************************************************************)
C8_ReturnedFileExists == ret # NoReturn => Exists(ret.path)

(***************************************************************************)
(* C9: when a chapter completes after provider successes, failures and     *)
(* budget reductions (no corrupted verdict), the chapter's audio file      *)
(* exists and the texts behind its buffers, in order, concatenate to the   *)
(* chapter text up to whitespace.                                          *)
(***************************************************************************)
C9_ChapterTextInOrder ==
  (ch.pc = "done" /\ corrupts = 0) =>
    /\ Exists(ch.result)
    /\ Squash(TextOf(fs[ch.result])) = Squash(cfg.chapter_text)

\* A chapter of several chunks completed after a budget reduction, with a chunk
\* re-chunked into sub-units.
C9_Witness ==
  /\ ch.pc = "done" /\ corrupts = 0
  /\ chunk_step_index["main"] > 0
  /\ Len(ch.chunks) > 1
  /\ Exists(ch.result)
  /\ Len(fs[ch.result]) > Len(ch.chunks)

C11_FailedAnalysisRegenerates ==
  [][(/\ Running /\ Top.pc = "check"
      /\ ret' # NoReturn
      /\ ret'.lin.verdict = "error")
       => Top.retry_count >= CORRUPTION_RETRY_ATTEMPTS]_vars

(***************************************************************************)
(* C12: once the budget of the job has been reduced, every later provider  *)
(* call submits a unit with count_tokens <= the reduced limit, and every   *)
(* later reduction takes the next step of the ladder after the position    *)
(* the job has reached.  TTSGenerator regenerates a corrupted chunk in     *)
(* safe mode through a temporary generator built from the configuration:   *)
(* its limit is chunk_limit again and its ladder position is 0, so a       *)
(* server error during the regeneration reduces from the top of the        *)
(* ladder, and the reduction is lost with the temporary generator.         *)
(***************************************************************************)
C12_ReducedBudgetGoverns ==
  [][chunk_step_index["main"] > 0 =>
       /\ ProviderCall => count_tokens(Top.chunk_text) <= current_chunk_limit["main"]
       /\ (ProviderFailed /\ ~BudgetUnchanged) =>
            /\ chunk_step_index'[Top.g] = chunk_step_index["main"] + 1
            /\ current_chunk_limit'[Top.g] = CHUNK_REDUCTION_STEPS[chunk_step_index'[Top.g]]
            /\ chunk_step_index'["main"] = chunk_step_index'[Top.g]]_vars

(***************************************************************************)
(* C13: for the known model key, every record_request of k tokens adds one *)
(* to current_requests and k to current_tokens, so that after n calls in   *)
(* one window current_requests = n and current_tokens = n*k; and every     *)
(* can_make_request that finds current_requests >= requests_per_minute in  *)
(* the current window returns not-ready with a positive wait time.         *)
(***************************************************************************)
C13_RecordCountsAndFullWindowRefuses ==
  [][/\ (RecordRequest /\ rate_limits' # rate_limits) =>
          /\ rate_limits'[KNOWN_MODEL].current_requests =
               rate_limits[KNOWN_MODEL].current_requests + 1
          /\ \E k \in TokenCounts :
               /\ rate_limits'[KNOWN_MODEL].current_tokens =
                    rate_limits[KNOWN_MODEL].current_tokens + k
               /\ rate_limits'[KNOWN_MODEL].current_tokens =
                    rate_limits'[KNOWN_MODEL].current_requests * k
          /\ rate_limits'[KNOWN_MODEL].window_start = rate_limits[KNOWN_MODEL].window_start
     /\ (/\ CanMakeRequest
         /\ decision'.model = KNOWN_MODEL
         /\ rate_limits'[KNOWN_MODEL].current_requests >= requests_per_minute)
          => ~decision'.ready /\ decision'.wait > 0]_vars

\* The window holds requests_per_minute requests of k tokens each, the minimum
\* interval since the last one has passed, and can_make_request has answered
\* with the time left in the window.
C13_Witness ==
  /\ rate_limits[KNOWN_MODEL].current_requests = requests_per_minute
  /\ \E k \in TokenCounts : rate_limits[KNOWN_MODEL].current_tokens = requests_per_minute * k
  /\ clock - last_request_time >= min_request_interval
  /\ decision.model = KNOWN_MODEL /\ ~decision.ready
  /\ decision.wait = WINDOW_SECONDS - (clock - rate_limits[KNOWN_MODEL].window_start)
  /\ decision.wait > 0

C15_CallsMinIntervalApart ==
  [][(hc.pc = "call" /\ hc' # hc /\ hc.started # <<>>) =>
       clock - hc.started[1] >= min_request_interval]_vars

RECURSIVE SumTokens(_)
SumTokens(entries) ==
  IF entries = <<>> THEN 0 ELSE Head(entries).tokens + SumTokens(Tail(entries))

(***************************************************************************)
(* C16: for the known model key, in every interval of 60 seconds, wherever *)
(* it starts, at most requests_per_minute requests are admitted and        *)
(* recorded and their tokens sum to at most tokens_per_minute.  The        *)
(* window is a fixed one, restarted by the first can_make_request after it *)
(* expires: a request recorded at the start of a window and another        *)
(* admitted right after the restart fall within 60 seconds of each other   *)
(* and together exceed tokens_per_minute.                                  *)
(***************************************************************************)
C16_EverySixtySecondsWithinCapacity ==
  /\ Len(log) <= requests_per_minute
  /\ SumTokens(log) <= tokens_per_minute

(***************************************************************************)
(* C17: every model key that can_make_request has admitted has a           *)
(* rate-limit window from then on, a key the limiter had never seen        *)
(* included, so that the interval and the per-minute bounds are enforced   *)
(* and record_request counts for it.  The limiter holds the one window it  *)
(* is constructed with: for any other key (the default model               *)
(* gemini-2.5-flash-preview-tts) rate_limits.get returns None,             *)
(* can_make_request answers (True, 0.0) and record_request does nothing.   *)
(***************************************************************************)
C17_AdmittedKeyHasWindow ==
  \A m \in ModelKeys :
    (decision.model = m /\ decision.ready) => m \in DOMAIN rate_limits

(***************************************************************************)
(* C18: in call_with_quota_awareness record_request runs exactly once on   *)
(* a path that returns a result (the window of the model counts one        *)
(* request and the estimated tokens more) and never on a path that ends in *)
(* an exception; a failed attempt leaves current_requests, current_tokens  *)
(* and window_start of every window unchanged.                             *)
(***************************************************************************)
C18_RecordedOnceOnResult ==
  [][(hc.pc = "call" /\ hc' # hc) =>
       IF hc'.outcome = "result"
       THEN /\ hc'.records = 1
            /\ hc.model \in DOMAIN rate_limits =>
                 /\ rate_limits'[hc.model].current_requests =
                      rate_limits[hc.model].current_requests + 1
                 /\ rate_limits'[hc.model].current_tokens =
                      rate_limits[hc.model].current_tokens + hc.estimated_tokens
                 /\ rate_limits'[hc.model].window_start = rate_limits[hc.model].window_start
       ELSE /\ hc'.records = 0
            /\ rate_limits' = rate_limits
            /\ last_request_time' = last_request_time]_vars

\* A result has been returned after failed attempts: the window counts the one
\* request of the call.
C18_Witness ==
  /\ hc.pc = "idle" /\ hc.outcome = "result"
  /\ hc.attempt = max_retries
  /\ hc.records = 1
  /\ rate_limits[KNOWN_MODEL].current_requests = 1
  /\ rate_limits[KNOWN_MODEL].current_tokens > 1

(***************************************************************************)
(* C19: within one job the rate-limit state is shared by all units: when   *)
(* the call for the next unit starts after a successful call, the usage    *)
(* that call recorded (request count, token sum, last-request time) is     *)
(* the state its admission decision reads, so that the k-th successful     *)
(* call of a window is admitted against current_requests = k-1.            *)
(* generate_chunk_audio calls generate_audio_with_quota_awareness for      *)
(* every unit, and that function makes a new QuotaAwareRetryHandler, with  *)
(* a new SmartRateLimiter, each time: every admission reads                *)
(* current_requests = 0, current_tokens = 0 and last_request_time = 0.     *)
(***************************************************************************)
C19_NextUnitReadsRecordedUsage ==
  [][(hc.pc = "idle" /\ hc.outcome = "result" /\ hc'.pc = "wait") =>
       /\ rate_limits' = rate_limits
       /\ last_request_time' = last_request_time]_vars

RECURSIVE Flatten(_)
Flatten(chunks) == IF chunks = <<>> THEN <<>> ELSE Head(chunks) \o Flatten(Tail(chunks))

(***************************************************************************)
(* C20: for every text t and budget b >= 1, the strings returned by        *)
(* chunk_text_smartly(t, b), joined in order and stripped of whitespace,   *)
(* are t stripped of whitespace: no other character is lost, duplicated or *)
(* reordered at the paragraph, sentence, word or character level or in     *)
(* the verification pass.                                                  *)
(***************************************************************************)
C20_ChunksPreserveText ==
  chunk_pc = "done" => Squash(Flatten(out_chunks)) = Squash(in_text)

\* A text with a blank line, a sentence end, a space and a word over the budget
\* has been chunked, and the over-long word went through the character loop.
C20_Witness ==
  /\ chunk_pc = "done"
  /\ {"\n", ".", " ", "a", "b"} \subseteq Range(in_text)
  /\ Len(out_chunks) >= 3
  /\ \E i \in 1..Len(out_chunks) :
       Range(out_chunks[i]) = {"b"} /\ Len(out_chunks[i]) < Len(LongWord)

(***************************************************************************)
(* C21: chunk_text_smartly of the empty string returns no unit, and for    *)
(* every other text t with count_tokens(t) <= b it returns exactly one     *)
(* unit, t without its leading and trailing whitespace, blank lines inside *)
(* t and texts made of whitespace included.  For a text made of            *)
(* whitespace the one chunk is empty after strip() and the verification    *)
(* pass drops it: the function returns no unit.                            *)
(***************************************************************************)
C21_TextWithinBudgetIsOneUnit ==
  chunk_pc = "done" =>
    /\ in_text = <<>> => out_chunks = <<>>
    /\ (in_text # <<>> /\ count_tokens(in_text) <= in_max_tokens) =>
         out_chunks = << strip(in_text) >>

(***************************************************************************)
(* The quality detector on its own: every outcome of the rule evaluation,  *)
(* under the default and a stricter threshold, with and without a report.  *)
(***************************************************************************)
\* Every component at rest: the state each component specification starts in.
InitIdle == ExtIdle /\ ChunkIdle /\ PipeIdle /\ LimIdle

NextDetector ==
  \/ DetectCorruption
  \/ AnalysisFails
  \/ DetectorReturn

SpecDetector == InitIdle /\ [][NextDetector]_vars

(***************************************************************************)
(* C22.  For every outcome of the rule evaluation, detect_corruption       *)
(* reports is_corrupted = true exactly when at least one rule fired and    *)
(* the mean confidence of the firing rules is strictly greater than the    *)
(* threshold; a mean equal to the threshold is reported as not corrupted.  *)
(* The mean is sum / n, so "mean > threshold" is sum > threshold * n.      *)
(***************************************************************************)
C22_CorruptedIffMeanAboveThreshold ==
  det.pc = "done" =>
    LET r == det.report
    IN  r.is_corrupted <=>
          /\ Len(r.corruption_types) > 0
          /\ r.confidence_score.sum > det.threshold * r.confidence_score.n

(***************************************************************************)
(* C23.  For every non-empty set of corruption kinds found by the          *)
(* analysis, the report built with generate_report = True holds at least   *)
(* one recommendation for each kind of the set, and does not hold the      *)
(* "audio quality is acceptable" recommendation.                           *)
(***************************************************************************)
C23_EveryKindHasRecommendation ==
  (det.pc = "done" /\ det.generate_report /\ det.report.corruption_types # <<>>) =>
    LET r == det.report
    IN  /\ \A kind \in Range(r.corruption_types) :
             \E i \in 1..Len(RecommendationRules) :
               /\ RecommendationRules[i].kind = kind
               /\ Range(RecommendationRules[i].recs) \cap Range(r.recommendations) # {}
        /\ "Audio quality is acceptable" \notin Range(r.recommendations)

(***************************************************************************)
(* The job drivers on their own: up to MaxRuns runs of one job, by main()  *)
(* or by the GUI, over an output directory that may hold files already.    *)
(***************************************************************************)
NextJob ==
  \/ FilePresent
  \/ MainStart
  \/ MainChapter
  \/ MainCombine
  \/ GuiStart
  \/ GuiChapter
  \/ GuiCombine

SpecJob == InitIdle /\ [][NextJob]_vars

C28_EveryChapterOnceInOrder ==
  job.pc = "done" =>
    /\ Len(job.generated_files) = Len(chapter_files)
    /\ \A i \in 1..Len(job.generated_files) :
         /\ job.generated_files[i][2] = chapter_files[i]
         /\ Exists(job.generated_files[i])
    /\ job.final = ContentOf(job.generated_files)

(***************************************************************************)
(* C29.  If a chapter was generated and marked completed in one run, a     *)
(* later run of main() for the same job skips it and makes no provider     *)
(* call for it - whatever files the output directory held when the         *)
(* chapter was first generated, a file with the chapter's own output name  *)
(* included.                                                               *)
(***************************************************************************)
C29_CompletedChapterNotCalledAgain ==
  [][ \A i \in 1..Len(chapter_files) :
        (/\ job.driver = "main" /\ job'.driver = "main"
         /\ chapter_files[i] \in job'.called \ job.called)
          => chapter_files[i] \notin job.marked ]_vars

(***************************************************************************)
(* C25.  Processing one chapter terminates, and under a provider that      *)
(* always fails with a server error it ends in Fatal once no smaller       *)
(* ladder step remains, the reductions never exceeding the length of the   *)
(* ladder: a ladder position never passes the end of the ladder, and when  *)
(* the exception of an exhausted round of 500/502 failures leaves          *)
(* generate_chunk_audio, the ladder of its generator is used up.           *)
(***************************************************************************)
C25_FatalOnlyWhenLadderUsedUp ==
  [][ /\ \A g \in Generators : chunk_step_index'[g] <= Len(CHUNK_REDUCTION_STEPS)
      /\ (/\ ProviderFailed
          /\ Top.attempt = max_retries
          /\ last_call'.round = "5xx"
          /\ exc' # NoExc)
           => ~CanReduce(Top.g) ]_vars

(***************************************************************************)
(* wait_for_rate_limit on its own, with time that never stops: a thread    *)
(* calls it, goes round its loop, and records the request it was admitted  *)
(* for.  The limiter reads the clock only in differences (time since the   *)
(* window started, time since the last request), so the time stamps are    *)
(* kept relative: once the clock is three windows from the origin, the     *)
(* origin moves forward by two windows.                                    *)
(***************************************************************************)
WaitEstimates == {1, 6000, tokens_per_minute + 2000}

Rebase(t, limits, lrt) ==
  IF t < 3 * WINDOW_SECONDS
  THEN [clock |-> t, limits |-> limits, lrt |-> lrt]
  ELSE [clock  |-> t - 2 * WINDOW_SECONDS,
        limits |-> [m \in DOMAIN limits |->
                      [limits[m] EXCEPT !.window_start = Max(0, @ - 2 * WINDOW_SECONDS)]],
        lrt    |-> Max(0, lrt - 2 * WINDOW_SECONDS)]

\* Line 185: wait_for_rate_limit(model, estimated_tokens) is called.
WaitCalled ==
  /\ hc.pc = "idle"
  /\ \E model \in ModelKeys, estimated_tokens \in WaitEstimates :
       hc' = [IdleHandler EXCEPT !.pc = "wait", !.model = model,
                                 !.estimated_tokens = estimated_tokens]
  /\ UNCHANGED <<chunkVars, extVars, pipeVars, clock, rate_limits, last_request_time,
                 decision, log>>

\* Lines 108-127: one turn of the loop: admitted, or asleep for wait_time.
WaitTurn ==
  /\ hc.pc = "wait"
  /\ LET d == can_make_request(rate_limits, last_request_time, hc.model,
                               hc.estimated_tokens, clock)
         r == Rebase(clock + d.wait, d.limits, last_request_time)
     IN  IF d.ready
         THEN /\ hc' = [hc EXCEPT !.pc = "call", !.polled = TRUE]
              /\ rate_limits' = d.limits
              /\ UNCHANGED <<clock, last_request_time>>
         ELSE /\ hc' = [hc EXCEPT !.polled = TRUE]
              /\ clock' = r.clock
              /\ rate_limits' = r.limits
              /\ last_request_time' = r.lrt
  /\ UNCHANGED <<chunkVars, extVars, pipeVars, decision, log>>

\* Lines 95-106: the admitted request is made and recorded.
WaitRecorded ==
  /\ hc.pc = "call"
  /\ LET r == record_request(rate_limits, last_request_time, hc.model,
                             hc.estimated_tokens, clock)
     IN  /\ rate_limits' = r.limits
         /\ last_request_time' = r.lrt
  /\ hc' = IdleHandler
  /\ UNCHANGED <<chunkVars, extVars, pipeVars, clock, decision, log>>

NextWait ==
  \/ WaitCalled
  \/ WaitTurn
  \/ WaitRecorded

\* The thread in wait_for_rate_limit keeps running and time keeps advancing.
SpecWait == InitIdle /\ [][NextWait]_vars /\ WF_vars(WaitTurn)

(***************************************************************************)
(* C26.  For a known model key and any estimated token count,              *)
(* wait_for_rate_limit eventually returns, time advancing: the admission   *)
(* loop does not reject for ever - also when the estimated tokens of the   *)
(* single request are more than tokens_per_minute.                         *)
(***************************************************************************)
C26_WaitEventuallyReturns ==
  (hc.pc = "wait" /\ hc.model = KNOWN_MODEL) ~> (hc.pc = "call")

(***************************************************************************)
(* Two threads on one SmartRateLimiter.  can_make_request and              *)
(* record_request each run under self.lock, so each is one step; between   *)
(* the two the lock is free.  A rejected thread sleeps for wait_time.      *)
(***************************************************************************)
ThreadEstimates == {1, 6000}

\* wait_for_rate_limit(model, estimated_tokens) is called by thread t.
ThreadCalls(t) ==
  /\ threads[t].pc = "idle" /\ clock <= ClockEnd
  /\ \E estimated_tokens \in ThreadEstimates :
       threads' = [threads EXCEPT ![t] = [pc |-> "wait",
                                          estimated_tokens |-> estimated_tokens,
                                          until |-> 0]]
  /\ UNCHANGED <<chunkVars, pipeVars, limVars, det, project_state, job>>

\* Lines 60-93 and 110-115: can_make_request under the lock; the thread is
\* admitted, or goes to sleep for wait_time.
ThreadChecks(t) ==
  /\ threads[t].pc = "wait"
  /\ LET d == can_make_request(rate_limits, last_request_time, KNOWN_MODEL,
                               threads[t].estimated_tokens, clock)
     IN  /\ rate_limits' = d.limits
         /\ threads' = [threads EXCEPT ![t] =
                          IF d.ready THEN [@ EXCEPT !.pc = "admitted"]
                          ELSE [@ EXCEPT !.pc = "asleep", !.until = clock + d.wait]]
  /\ UNCHANGED <<chunkVars, pipeVars, det, project_state, job, clock,
                 last_request_time, decision, hc, log>>

\* Lines 117-127: the sleep of thread t is over.
ThreadWakes(t) ==
  /\ threads[t].pc = "asleep" /\ clock >= threads[t].until
  /\ threads' = [threads EXCEPT ![t] = [@ EXCEPT !.pc = "wait", !.until = 0]]
  /\ UNCHANGED <<chunkVars, pipeVars, limVars, det, project_state, job>>

\* Lines 95-106: record_request under the lock, for the request thread t
\* was admitted for.
ThreadRecords(t) ==
  /\ threads[t].pc = "admitted"
  /\ LET r == record_request(rate_limits, last_request_time, KNOWN_MODEL,
                             threads[t].estimated_tokens, clock)
     IN  /\ rate_limits' = r.limits
         /\ last_request_time' = r.lrt
  /\ threads' = [threads EXCEPT ![t] = IdleThread]
  /\ UNCHANGED <<chunkVars, pipeVars, det, project_state, job, clock, decision, hc, log>>

\* Time passes: to the end of the earliest sleep, or by the minimum interval
\* when no thread sleeps.
TimePasses ==
  /\ LET sleepers == { t \in Threads : threads[t].pc = "asleep" /\ threads[t].until > clock }
         wake == IF sleepers = {} THEN clock + min_request_interval
                 ELSE CHOOSE u \in { threads[t].until : t \in sleepers } :
                        \A t \in sleepers : u <= threads[t].until
     IN  /\ \A t \in Threads : threads[t].pc = "asleep" => threads[t].until > clock
         /\ wake <= ClockEnd
         /\ clock' = wake
  /\ UNCHANGED <<chunkVars, pipeVars, extVars, rate_limits, last_request_time,
                 decision, hc, log>>

NextThreads ==
  \/ \E t \in Threads : ThreadCalls(t)
  \/ \E t \in Threads : ThreadChecks(t)
  \/ \E t \in Threads : ThreadWakes(t)
  \/ \E t \in Threads : ThreadRecords(t)
  \/ TimePasses

SpecThreads == InitIdle /\ [][NextThreads]_vars

(***************************************************************************)
(* C27.  Two threads share one limiter and each run wait_for_rate_limit    *)
(* followed by record_request for the same model key: under every          *)
(* interleaving current_requests never exceeds requests_per_minute and     *)
(* current_tokens never exceeds tokens_per_minute.                         *)
(***************************************************************************)
C27_SharedWindowWithinCapacity ==
  /\ rate_limits[KNOWN_MODEL].current_requests <= requests_per_minute
  /\ rate_limits[KNOWN_MODEL].current_tokens <= tokens_per_minute

(***************************************************************************)
(* The retry loop of a QuotaAwareRetryHandler built with                   *)
(* max_retries = MaxAttempts, for one call whose attempts fail: the        *)
(* handler sleeps and goes on, or raises.  hc.started holds the time the   *)
(* last sleep began, hc.outcome what the failed attempt was.               *)
(***************************************************************************)
MaxAttempts == 8

\* Line 190: the loop over the attempts begins.
BackoffCall ==
  /\ hc = IdleHandler
  /\ hc' = [IdleHandler EXCEPT !.pc = "call"]
  /\ UNCHANGED <<chunkVars, extVars, pipeVars, clock, rate_limits, last_request_time,
                 decision, log>>

\* Lines 216-282: the attempt fails with `status` (0: not an HTTP error).
BackoffFails ==
  /\ hc.pc = "call"
  /\ \E status \in Statuses :
       IF status \in {429, 500, 502, 0} /\ hc.attempt < MaxAttempts
       THEN /\ clock' = clock + RetryDelay(status, hc.attempt)
            /\ hc' = [hc EXCEPT !.attempt = @ + 1, !.started = <<clock>>,
                                !.outcome = CASE status = 429 -> "retry_rate_limit"
                                              [] status = 0 -> "retry_unexpected"
                                              [] OTHER -> "retry_server_error"]
       ELSE /\ clock' = clock
            /\ hc' = [IdleHandler EXCEPT !.outcome = "exception", !.attempt = hc.attempt]
  /\ UNCHANGED <<chunkVars, extVars, pipeVars, rate_limits, last_request_time,
                 decision, log>>

\* Lines 197-214: the attempt succeeds.
BackoffSucceeds ==
  /\ hc.pc = "call"
  /\ hc' = [IdleHandler EXCEPT !.outcome = "result", !.attempt = hc.attempt]
  /\ UNCHANGED <<chunkVars, extVars, pipeVars, clock, rate_limits, last_request_time,
                 decision, log>>

NextBackoff ==
  \/ BackoffCall
  \/ BackoffFails
  \/ BackoffSucceeds

SpecBackoff == InitIdle /\ [][NextBackoff]_vars

=============================================================================
